---------------------------- MODULE Spec2Model ----------------------------
(***************************************************************************)
(* AI-output reconciliation pipeline of PriceAction:                       *)
(*   src/src/core/response_parser.py  (ResponseParser, safe_json_loads)    *)
(*   src/src/main.py                  (process_symbol_async and its saves) *)
(*                                                                         *)
(* A response text is a sequence of whitespace-separated tokens.  The      *)
(* structural tokens are the two protocol delimiters, the two code-fence   *)
(* markers, the braces, one JSON member ("a", standing for the members of  *)
(* the payload object) and a plain prose word ("w").  Prose may also hold  *)
(* keyword tokens (the Chinese/English cues the field inference looks for) *)
(* and price tokens (digit strings).  The regular expressions of the       *)
(* parser are modelled by what they match on such a token sequence.        *)
(***************************************************************************)
EXTENDS Integers, Sequences, FiniteSets, TLC

VARIABLES
    response_text,   \* the raw LLM response handed to the parser
    payload,         \* the JSON members the token "a" of the text stands for
    pc,              \* position of the caller: "ready" or the call that was made
    parse_result,    \* what ResponseParser.parse returned
    multi_result,    \* what ResponseParser.parse_multi_timeframe returned
    other_text,      \* a second response, carrying the same payload
    other_result,    \* what parse_multi_timeframe returned for the second response
    valid_timeframes,\* process_symbol_async: the timeframes with K-line data
    llm_result,      \* process_symbol_async: what llm.analyze_multi_timeframe returned
    consensus,       \* process_symbol_async: what calculate_consensus returned
    llm,             \* process_symbol_async: the provider class passed as llm
    db,              \* the states table: the rows of each timeframe, oldest first
    trade_plan,      \* the arguments of a risk calculation
    risk_metrics,    \* what the risk calculation returned
    trades,          \* the trades table: the risk-analysis records, by id
    saved,           \* the state of the latest successful save_state of each timeframe
    got_state,       \* what DatabaseManager.get_state returned
    save_result,     \* what DatabaseManager.save_state returned
    method,          \* the provider method that was called, "none" before a call
    max_retries,     \* self.max_retries of the provider
    attempts,        \* what each _call_api of the call gave, in order
    analysis         \* what the provider method returned

pipeVars == <<valid_timeframes, llm_result, consensus, llm, db>>

\* the variables neither the parser nor the pipeline touches
llmVars == <<method, max_retries, attempts, analysis>>

restVars == <<trade_plan, risk_metrics, trades, saved, got_state, save_result, llmVars>>

vars == <<response_text, payload, pc, parse_result, multi_result, other_text, other_result,
          valid_timeframes, llm_result, consensus, llm, db, trade_plan, risk_metrics, trades,
          saved, got_state, save_result, method, max_retries, attempts, analysis>>

---------------------------------------------------------------------------
(* Tokens *)

DS == "---JSON_DATA_START---"
DE == "---JSON_DATA_END---"
FJ == "FENCE_JSON"   \* the text of a json-tagged code fence opener
F  == "FENCE"        \* the text of a bare triple-backtick fence
LB == "{"
RB == "}"
MEMBER == "a"
WORD == "w"
ARRAY == "[1]"       \* the text of a JSON array

StructTokens == {DS, DE, FJ, F, LB, RB, MEMBER, WORD}

Fences == {F, FJ}

---------------------------------------------------------------------------
(* Sequence helpers *)

Min(S) == CHOOSE x \in S : \A y \in S : x <= y
Max(S) == CHOOSE x \in S : \A y \in S : x >= y

\* indices of s holding a token of T
Positions(s, T) == {i \in 1..Len(s) : s[i] \in T}

\* tokens strictly between positions i and j
Between(s, i, j) == SubSeq(s, i + 1, j - 1)

---------------------------------------------------------------------------
(* JSON values: null, strings, numbers and objects (dicts) *)

Null == [k |-> "null"]
Str(s) == [k |-> "str", s |-> s]
Num(n) == [k |-> "num", n |-> n]
Dict(d) == [k |-> "dict", d |-> d]
List(l) == [k |-> "list", l |-> l]
EmptyDict == Dict(<<>>)
EmptyList == List(<<>>)
\* a key that a state does not have
Missing == [k |-> "missing"]

\* Python truthiness of a JSON value
Truthy(v) ==
    CASE v.k = "null" -> FALSE
      [] v.k = "str" -> v.s # ""
      [] v.k = "num" -> v.n # 0
      [] v.k = "dict" -> DOMAIN v.d # {}
      [] v.k = "list" -> v.l # <<>>
      [] v.k = "missing" -> FALSE

IsDict(v) == v.k = "dict"

\* dict.get(key, default) on a value known to be a dict
Get(v, key, default) == IF key \in DOMAIN v.d THEN v.d[key] ELSE default

\* d[key] = val on a dict
Put(v, key, val) ==
    Dict([x \in (DOMAIN v.d) \cup {key} |-> IF x = key THEN val ELSE v.d[x]])

---------------------------------------------------------------------------
(* safe_json_loads *)

\* json.loads(text, strict=False) accepts exactly the object texts "{ }" and
\* "{ a }" and the array text among the token sequences; the first is the
\* empty object, the second the object holding the payload's members, the
\* third a list.
ValidJson(span) == span = <<LB, RB>> \/ span = <<LB, MEMBER, RB>> \/ span = <<ARRAY>>

NoneValue == [none |-> TRUE, k |-> "null", members |-> {}]

JsonLoads(span) ==
    [none |-> FALSE,
     k |-> IF span = <<ARRAY>> THEN "list" ELSE "dict",
     members |-> IF MEMBER \in {span[i] : i \in 1..Len(span)} THEN {MEMBER} ELSE {}]

\* from the first "{" that has a "}" after it, greedily to the last "}"
GreedyBraces(s) ==
    LET lbs == Positions(s, {LB})
        rbs == Positions(s, {RB})
    IN  IF lbs # {} /\ rbs # {} /\ Min(lbs) < Max(rbs)
        THEN [none |-> FALSE, span |-> SubSeq(s, Min(lbs), Max(rbs))]
        ELSE [none |-> TRUE, span |-> <<>>]

\* re.search(r"(\{.*\}|\[.*\])", cleaned_text, re.DOTALL): the leftmost of
\* the brace span and the span from the first "[" greedily to the last "]"
GreedyJson(s) ==
    LET arrays == Positions(s, {ARRAY})
    IN  IF arrays = {} THEN GreedyBraces(s)
        ELSE IF ~GreedyBraces(s).none /\ Min(Positions(s, {LB})) < Min(arrays)
        THEN GreedyBraces(s)
        ELSE [none |-> FALSE, span |-> SubSeq(s, Min(arrays), Max(arrays))]

safe_json_loads(span) ==
    IF ValidJson(span) THEN JsonLoads(span)
    ELSE LET m == GreedyJson(span)
         IN  IF ~m.none /\ ValidJson(m.span) THEN JsonLoads(m.span) ELSE NoneValue

---------------------------------------------------------------------------
(* ResponseParser._extract_json *)

NoMatch == [none |-> TRUE, span |-> <<>>]

\* the two re.sub calls that strip a leading and a trailing code fence
CleanFences(span) ==
    LET s1 == IF span # <<>> /\ Head(span) \in Fences THEN Tail(span) ELSE span
    IN  IF s1 # <<>> /\ s1[Len(s1)] = F THEN SubSeq(s1, 1, Len(s1) - 1) ELSE s1

\* r"---JSON_DATA_START---\s*(.*?)\s*---JSON_DATA_END---"
MatchDelimiters(text) ==
    LET starts == Positions(text, {DS})
    IN  IF starts = {} THEN NoMatch
        ELSE LET i == Min(starts)
                 ends == {j \in Positions(text, {DE}) : j > i}
             IN  IF ends = {} THEN NoMatch
                 ELSE [none |-> FALSE, span |-> Between(text, i, Min(ends))]

\* r"FENCE_JSON\s*(.*?)\s*FENCE" (the fence being three backticks)
MatchJsonFence(text) ==
    LET starts == Positions(text, {FJ})
    IN  IF starts = {} THEN NoMatch
        ELSE LET i == Min(starts)
                 ends == {j \in Positions(text, Fences) : j > i}
             IN  IF ends = {} THEN NoMatch
                 ELSE [none |-> FALSE, span |-> Between(text, i, Min(ends))]

\* r"FENCE\s*(\{.*?\})\s*FENCE"
MatchPlainFence(text) ==
    LET ends(i) == {j \in Positions(text, {RB}) :
                        j >= i + 2 /\ j + 1 <= Len(text) /\ text[j + 1] \in Fences}
        starts == {i \in Positions(text, {F}) :
                        i + 1 <= Len(text) /\ text[i + 1] = LB /\ ends(i) # {}}
    IN  IF starts = {} THEN NoMatch
        ELSE LET i == Min(starts)
             IN  [none |-> FALSE, span |-> SubSeq(text, i + 1, Min(ends(i)))]

\* re.search(r"\{[\s\S]*\}", text)
MatchBraces(text) == GreedyBraces(text)

_extract_json(text) ==
    LET m1 == MatchDelimiters(text)
        m2 == MatchJsonFence(text)
        m3 == MatchPlainFence(text)
    IN  IF ~m1.none THEN [none |-> FALSE, span |-> CleanFences(m1.span)]
        ELSE IF ~m2.none THEN [none |-> FALSE, span |-> CleanFences(m2.span)]
        ELSE IF ~m3.none THEN [none |-> FALSE, span |-> CleanFences(m3.span)]
        ELSE MatchBraces(text)

\* response_text.split("---JSON_DATA_START---")[0].strip()
AnalysisText(text) ==
    LET starts == Positions(text, {DS})
    IN  IF starts = {} THEN text ELSE SubSeq(text, 1, Min(starts) - 1)

---------------------------------------------------------------------------
(* ResponseParser.parse *)

NotCalled == [called |-> FALSE]

ParseFailure(msg, text) ==
    [called |-> TRUE, raised |-> FALSE, success |-> FALSE, error |-> msg,
     analysis_text |-> text, state |-> NoneValue]

parse(text) ==
    LET json_text == _extract_json(text)
        data == safe_json_loads(json_text.span)
    IN  IF json_text.none \/ json_text.span = <<>>
        THEN ParseFailure("no JSON data found", text)
        ELSE IF data.none
        THEN ParseFailure("JSON parse failed", text)
        ELSE [called |-> TRUE, raised |-> FALSE, success |-> TRUE, error |-> "",
              analysis_text |-> AnalysisText(text), state |-> data]

---------------------------------------------------------------------------
(* Prose cues.  A cue is one of the substrings the field inference searches
   for; a prose token contains the cues listed by CuesIn.  The cue names are
   romanised; the source line of each is given where it is used. *)

\* the cues, romanised: "xinhao yi chufa" (signal triggered), "yi tupo" (has
\* broken out), ...
CUE ==
    [SIGNAL_TRIGGERED |-> "xinhao_yi_chufa",
     BROKEN_OUT |-> "yi_tupo",
     FORMING |-> "xingcheng_zhong",
     BUILDING |-> "goujian_zhong",
     FAILED |-> "shibai",
     INVALID |-> "shixiao",
     COMPLETED |-> "wancheng",
     BULLISH |-> "kanzhang",
     GO_LONG |-> "zuoduo",
     LONG |-> "long",
     BEARISH |-> "kandie",
     GO_SHORT |-> "zuokong",
     SHORT |-> "short",
     FALLING |-> "xiadie",
     BEARS |-> "kongtou",
     RISING |-> "shangzhang",
     BULLS |-> "duotou",
     ENTER_AT_MARKET |-> "xianjia_ruchang",
     ENTER_NOW |-> "liji_ruchang",
     PENDING_ORDER |-> "guadan",
     WAIT_FOR |-> "dengdai",
     WAIT_CONFIRM |-> "dengdai_queren",
     STAND_ASIDE |-> "guanwang",
     BREAKOUT |-> "tupo",
     REVERSAL |-> "fanzhuan",
     STOP_SWEEP |-> "saosun",
     SWEEP |-> "sao"]

\* the searched substrings a prose token contains
CuesIn(tok) ==
    CASE tok = CUE.BROKEN_OUT -> {CUE.BROKEN_OUT, CUE.BREAKOUT}
      [] tok = CUE.WAIT_CONFIRM -> {CUE.WAIT_CONFIRM, CUE.WAIT_FOR}
      [] tok = CUE.STOP_SWEEP -> {CUE.STOP_SWEEP, CUE.SWEEP}
      [] OTHER -> {tok}

\* cue in analysis_text
Has(text, cue) == \E i \in 1..Len(text) : cue \in CuesIn(text[i])

---------------------------------------------------------------------------
(* ResponseParser._extract_prices_from_text.  Prices and probabilities are
   kept in hundredths (Scale), so that the 2 % and 3 % margins of the key
   levels and the probability bands stay integers. *)

Scale == 100

PRICE_MIN == 100
PRICE_MAX == 10000000

\* the characters of a prose token that holds digits; a word holds none
Chars(tok) ==
    CASE tok = "500" -> <<"5", "0", "0">>
      [] tok = "3000" -> <<"3", "0", "0", "0">>
      [] tok = "50,000" -> <<"5", "0", ",", "0", "0", "0">>
      [] tok = "3000.5" -> <<"3", "0", "0", "0", ".", "5">>
      [] tok = "0099" -> <<"0", "0", "9", "9">>
      [] tok = "123456789" -> <<"1", "2", "3", "4", "5", "6", "7", "8", "9">>
      [] OTHER -> <<>>

DigitValue ==
    [c \in {"0", "1", "2", "3", "4", "5", "6", "7", "8", "9"} |->
        CASE c = "0" -> 0 [] c = "1" -> 1 [] c = "2" -> 2 [] c = "3" -> 3 [] c = "4" -> 4
          [] c = "5" -> 5 [] c = "6" -> 6 [] c = "7" -> 7 [] c = "8" -> 8 [] c = "9" -> 9]

RECURSIVE Matches(_, _, _)
\* text.replace(",", "") and re.findall(r"(\d{4,8})"): the commas are
\* dropped; scanning left to right, a run of digits is a match when it
\* reaches 8 digits, or when it ends with 4 digits or more
Matches(chars, run, found) ==
    IF chars = <<>> THEN (IF Len(run) >= 4 THEN found \cup {run} ELSE found)
    ELSE IF Head(chars) = "," THEN Matches(Tail(chars), run, found)
    ELSE IF Head(chars) \in DOMAIN DigitValue
    THEN IF Len(run) = 7
         THEN Matches(Tail(chars), <<>>, found \cup {Append(run, Head(chars))})
         ELSE Matches(Tail(chars), Append(run, Head(chars)), found)
    ELSE Matches(Tail(chars), <<>>, IF Len(run) >= 4 THEN found \cup {run} ELSE found)

RECURSIVE ValueOf(_)
\* float(match) of a run of digits
ValueOf(run) ==
    IF run = <<>> THEN 0
    ELSE 10 * ValueOf(SubSeq(run, 1, Len(run) - 1)) + DigitValue[run[Len(run)]]

\* the values of the digit runs of 4 to 8 digits that re.findall finds in a
\* token, once the commas are removed
DigitRuns(tok) == {ValueOf(run) : run \in Matches(Chars(tok), <<>>, {})}

_extract_prices_from_text(text) ==
    {n \in UNION {DigitRuns(text[i]) : i \in 1..Len(text)} :
        PRICE_MIN <= n /\ n <= PRICE_MAX}

---------------------------------------------------------------------------
(* ResponseParser._infer_missing_fields_from_text, for one timeframe state.
   Each step returns the state and whether the step raised. *)

Ok(st) == [raised |-> FALSE, st |-> st]
Raised(st) == [raised |-> TRUE, st |-> st]

InferStatus(text) ==
    IF Has(text, CUE.SIGNAL_TRIGGERED) \/ Has(text, CUE.BROKEN_OUT) THEN "TRIGGERED"
    ELSE IF Has(text, CUE.FORMING) \/ Has(text, CUE.BUILDING) THEN "FORMING"
    ELSE IF Has(text, CUE.FAILED) \/ Has(text, CUE.INVALID) THEN "FAILED"
    ELSE IF Has(text, CUE.COMPLETED) THEN "COMPLETED"
    ELSE "FORMING"

InferDirection(text) ==
    IF Has(text, CUE.BULLISH) \/ Has(text, CUE.GO_LONG) \/ Has(text, CUE.LONG) THEN "LONG"
    ELSE IF Has(text, CUE.BEARISH) \/ Has(text, CUE.GO_SHORT) \/ Has(text, CUE.SHORT) THEN "SHORT"
    ELSE IF Has(text, CUE.FALLING) \/ Has(text, CUE.BEARS) THEN "SHORT"
    ELSE IF Has(text, CUE.RISING) \/ Has(text, CUE.BULLS) THEN "LONG"
    ELSE "NEUTRAL"

InferActionState(text) ==
    IF Has(text, CUE.ENTER_AT_MARKET) \/ Has(text, CUE.ENTER_NOW) THEN "ENTER_NOW"
    ELSE IF Has(text, CUE.PENDING_ORDER) \/ Has(text, CUE.WAIT_FOR) THEN "CONDITIONAL"
    ELSE IF Has(text, CUE.STAND_ASIDE) \/ Has(text, CUE.WAIT_CONFIRM) THEN "WAIT"
    ELSE "WAIT"

InferStructure(text) ==
    IF Has(text, CUE.BREAKOUT) THEN "BOS"
    ELSE IF Has(text, CUE.REVERSAL) THEN "CHOCH"
    ELSE IF Has(text, CUE.STOP_SWEEP) \/ Has(text, CUE.SWEEP) THEN "LIQUIDITY_SWEEP"
    ELSE "RANGE"

\* probability bands, probability in hundredths
BAND_HIGH == 80
BAND_MID == 60
BAND_LOW == 40
CONFIDENCE_DEFAULT == 50

InferConfidence(prob) ==
    IF prob >= BAND_HIGH THEN 80
    ELSE IF prob >= BAND_MID THEN 60
    ELSE IF prob >= BAND_LOW THEN 40
    ELSE CONFIDENCE_DEFAULT

\* key levels from the prose prices, in hundredths
InferKeyLevels(text) ==
    LET prices == _extract_prices_from_text(text)
        lo == Min(prices)
        hi == Max(prices)
    IN  IF prices = {} THEN EmptyDict
        ELSE IF Cardinality(prices) >= 2
        THEN Dict([x \in {"entry_trigger", "invalidation_level", "profit_target_1"} |->
                CASE x = "entry_trigger" -> Num(lo * Scale)
                  [] x = "invalidation_level" -> Num(hi * Scale + (hi - lo) * 2)
                  [] x = "profit_target_1" -> Num(hi * Scale - (hi - lo) * 3)])
        ELSE Dict([x \in {"entry_trigger", "invalidation_level", "profit_target_1"} |->
                CASE x = "entry_trigger" -> Num(lo * Scale)
                  [] x = "invalidation_level" -> Num(lo * 102)
                  [] x = "profit_target_1" -> Num(lo * 98)])

\* 1. activeNarrative.status
StepStatus(text, st) ==
    LET s1 == IF ~Truthy(st.activeNarrative)
              THEN [st EXCEPT !.activeNarrative = EmptyDict] ELSE st
        active == s1.activeNarrative
    IN  IF ~IsDict(active) THEN Raised(s1)
        ELSE IF ~Truthy(Get(active, "status", Null))
        THEN Ok([s1 EXCEPT !.activeNarrative = Put(active, "status", Str(InferStatus(text)))])
        ELSE Ok(s1)

\* the step that leaves the plan as it is
StepPlanField_skipped(r, field, inferred) == r

\* 2. and 3. a field of actionPlan: direction, then state.  Each step after
\* the first takes the result r of the steps before it and runs unless
\* they raised.
StepPlanField(r, field, inferred) ==
    LET ap == r.st.actionPlan
    IN  IF r.raised THEN r
        ELSE IF Truthy(ap) /\ ~IsDict(ap) THEN Raised(r.st)
        ELSE IF ~Truthy(ap) \/ ~Truthy(Get(ap, field, Null))
        THEN IF ~IsDict(ap) THEN Raised(r.st)
             ELSE Ok([r.st EXCEPT !.actionPlan = Put(ap, field, Str(inferred))])
        ELSE r

\* 4. marketStructure
StepStructure(text, r) ==
    IF r.raised THEN r
    ELSE IF ~Truthy(r.st.marketStructure)
    THEN Ok([r.st EXCEPT !.marketStructure = Str(InferStructure(text))])
    ELSE r

\* 5. signalConfidence
StepConfidence(r) ==
    IF r.raised \/ Truthy(r.st.signalConfidence) THEN r
    ELSE IF Get(r.st.activeNarrative, "probability_value", Num(0)).k # "num" THEN Raised(r.st)
    ELSE Ok([r.st EXCEPT !.signalConfidence =
                Num(InferConfidence(Get(r.st.activeNarrative, "probability_value", Num(0)).n))])

\* 6. activeNarrative.key_levels
StepKeyLevels(text, r) ==
    IF r.raised THEN r
    ELSE IF ~Truthy(Get(r.st.activeNarrative, "key_levels", Null))
    THEN Ok([r.st EXCEPT !.activeNarrative = Put(@, "key_levels", InferKeyLevels(text))])
    ELSE r

InferState(text, st) ==
    StepKeyLevels(text,
        StepConfidence(
            StepStructure(text,
                StepPlanField(
                    StepPlanField(StepStatus(text, st), "direction", InferDirection(text)),
                    "state", InferActionState(text)))))

\* the loop over timeframe_states: every state is inferred; an exception in
\* any of them leaves the function
_infer_missing_fields_from_text(analysis_text, timeframe_states) ==
    LET r == [tf \in DOMAIN timeframe_states |-> InferState(analysis_text, timeframe_states[tf])]
    IN  [raised |-> \E tf \in DOMAIN r : r[tf].raised,
         states |-> [tf \in DOMAIN r |-> r[tf].st]]

---------------------------------------------------------------------------
(* ResponseParser.parse_multi_timeframe *)

Timeframes == {"15m", "1h", "1d"}

MTA == "multi_timeframe_analysis"

NoStates == [tf \in {} |-> Missing]

MultiFailure(msg, text) ==
    [called |-> TRUE, raised |-> FALSE, success |-> FALSE, error |-> msg,
     analysis_text |-> text, timeframe_states |-> NoStates]

\* the dict literal built for one timeframe from tf_data
BuildState(tf_data) ==
    [marketCycle |-> Get(tf_data, "marketCycle", Str("TRADING_RANGE")),
     marketStructure |-> Get(tf_data, "marketStructure", Str("RANGE")),
     signalConfidence |-> Get(tf_data, "signalConfidence", Num(50)),
     activeNarrative |-> Get(tf_data, "activeNarrative", EmptyDict),
     alternativeNarrative |-> Get(tf_data, "alternativeNarrative", EmptyDict),
     actionPlan |-> Get(tf_data, "actionPlan", EmptyDict),
     volumeProfile |-> Get(tf_data, "volumeProfile", EmptyDict),
     keyLevels |-> Get(tf_data, "keyLevels", EmptyList),
     multi_timeframe_analysis |-> Missing]

\* the object json.loads returned: the payload when the parsed span holds
\* the member token, the empty object otherwise
DataOf(value, pl) == IF MEMBER \in value.members THEN Dict(pl) ELSE EmptyDict

\* lines 170-176: the result once the fields are inferred
MultiInferred(text, inferred) ==
    IF inferred.raised
    THEN [MultiFailure("raised", text) EXCEPT !.raised = TRUE]
    ELSE [called |-> TRUE, raised |-> FALSE, success |-> TRUE, error |-> "",
          analysis_text |-> AnalysisText(text), timeframe_states |-> inferred.states]

\* lines 145-176: the states built from the parsed object, then inferred
MultiFromData(text, data) ==
    LET present == {tf \in Timeframes : tf \in DOMAIN data.d}
        built == [tf \in present |->
                    IF MTA \in DOMAIN data.d
                    THEN [BuildState(data.d[tf]) EXCEPT !.multi_timeframe_analysis = data.d[MTA]]
                    ELSE BuildState(data.d[tf])]
    IN  IF \E tf \in present : ~IsDict(data.d[tf])
        THEN [MultiFailure("raised", text) EXCEPT !.raised = TRUE]
        ELSE MultiInferred(text, _infer_missing_fields_from_text(AnalysisText(text), built))

\* lines 132-140: the parsed object, or the failure when there is none
MultiFromValue(text, value, pl) ==
    IF value.none
    THEN MultiFailure("JSON parse failed", text)
    ELSE MultiFromData(text, DataOf(value, pl))

\* lines 122-133: the extracted span is parsed
MultiFromSpan(text, json_text, pl) ==
    IF json_text.none \/ json_text.span = <<>>
    THEN MultiFailure("no JSON data found", text)
    ELSE MultiFromValue(text, safe_json_loads(json_text.span), pl)

\* the body of the try block; raised means an exception left it
MultiBody(text, pl) == MultiFromSpan(text, _extract_json(text), pl)

\* the call without its except clause
parse_multi_timeframe_uncaught(text, pl) == MultiBody(text, pl)

\* except Exception: the tagged failure result
parse_multi_timeframe(text, pl) ==
    LET r == MultiBody(text, pl)
    IN  IF r.raised THEN MultiFailure("parse error", text) ELSE r

---------------------------------------------------------------------------
(* The states table and the pipeline variables before a cycle *)

\* what fetchone returns when no row matches
NoRow == [stored |-> FALSE]

\* the states table init_database creates: empty, its only key the
\* AUTOINCREMENT id, so the rows of a (symbol, timeframe) are a list by id
EmptyDb == [tf \in Timeframes |-> <<>>]

\* INSERT OR REPLACE INTO states: no UNIQUE constraint covers symbol and
\* timeframe, nothing conflicts, and the row is added under a new id
insert_or_replace(table, tf, row) == [table EXCEPT ![tf] = Append(@, row)]

\* SELECT * FROM states WHERE symbol = ? AND timeframe = ? and fetchone: the
\* search runs on idx_states_timeframe and yields the row of the lowest id
fetchone(table, tf) == IF table[tf] = <<>> THEN NoRow ELSE Head(table[tf])

NoPlan == [given |-> FALSE]

\* no provider method was called
ProviderIdle ==
    /\ method = "none"
    /\ max_retries = 0
    /\ attempts = <<>>
    /\ analysis = NotCalled

RestIdle ==
    /\ trade_plan = NoPlan
    /\ risk_metrics = NotCalled
    /\ trades = <<>>
    /\ saved = [tf \in Timeframes |-> Missing]
    /\ got_state = NotCalled
    /\ save_result = NotCalled
    /\ ProviderIdle

PipelineIdle ==
    /\ valid_timeframes = {}
    /\ llm_result = NotCalled
    /\ consensus = NotCalled
    /\ llm = "SiliconFlowProvider"
    /\ db = EmptyDb
    /\ RestIdle

---------------------------------------------------------------------------
(* The parser as a state machine: a caller holds a response text and calls
   parse or parse_multi_timeframe on it. *)

MaxTextLen == 5
MaxOutside == 2

Seqs(T, n) == UNION {[1..m -> T] : m \in 0..n}

\* every text of at most MaxTextLen structural tokens
ShortTexts == Seqs(StructTokens, MaxTextLen)

JsonTexts == {<<LB, RB>>, <<LB, MEMBER, RB>>}

\* a valid JSON object between the delimiter pair, and at most MaxOutside
\* tokens of any kind before and after the pair
DelimTexts ==
    UNION {{pre \o <<DS>> \o js \o <<DE>> \o suf :
                suf \in Seqs(StructTokens, MaxOutside - Len(pre)), js \in JsonTexts} :
           pre \in Seqs(StructTokens, MaxOutside)}

\* a payload whose three timeframe entries are empty objects, and one whose
\* 15m entry is a string instead of an object
PlainPayload == [tf \in Timeframes |-> EmptyDict]
MalformedPayload == [tf \in Timeframes |-> IF tf = "15m" THEN Str("oops") ELSE EmptyDict]
BasicPayloads == {PlainPayload, MalformedPayload}

CallParse ==
    /\ pc = "ready"
    /\ parse_result' = parse(response_text)
    /\ pc' = "parse"
    /\ UNCHANGED <<response_text, payload, multi_result, other_text, other_result, pipeVars, restVars>>

CallParseMulti ==
    /\ pc = "ready"
    /\ multi_result' = parse_multi_timeframe(response_text, payload)
    /\ pc' = "parse_multi_timeframe"
    /\ UNCHANGED <<response_text, payload, parse_result, other_text, other_result, pipeVars, restVars>>

Next == CallParse \/ CallParseMulti

Init ==
    /\ pc = "ready"
    /\ response_text \in ShortTexts \cup DelimTexts
    /\ payload \in BasicPayloads
    /\ parse_result = NotCalled
    /\ multi_result = NotCalled
    /\ other_text = <<>>
    /\ other_result = NotCalled
    /\ PipelineIdle

Spec == Init /\ [][Next]_vars

---------------------------------------------------------------------------
(* The parser on protocol-shaped responses: prose, then the payload between
   the delimiters.  The payload's entries range over missing, null, empty and
   valued fields; the member token holds no cue and no price, which is exact
   here because the payload follows the start delimiter. *)

\* the object with the fields of record f whose value is not Missing
Object(f) == Dict([x \in {y \in DOMAIN f : f[y] # Missing} |-> f[x]])

GivenKeyLevels ==
    Object([entry_trigger |-> Num(400000), invalidation_level |-> Num(390000),
            profit_target_1 |-> Num(420000)])

NarrativeInputs ==
    {Missing, Null, Str("x")} \cup
    {Object([status |-> st, probability_value |-> pk[1], key_levels |-> pk[2]]) :
        st \in {Missing, Str(""), Str("TRIGGERED")},
        pk \in {<<Missing, Missing>>, <<Num(90), GivenKeyLevels>>}}

PlanInputs ==
    {Missing, Null, Str("x")} \cup
    {Object([state |-> st, direction |-> dir]) :
        st \in {Missing, Str("ENTER_NOW")},
        dir \in {Missing, Str(""), Str("SHORT")}}

Entry(mc, ms, sc, an, ap) ==
    Object([marketCycle |-> mc, marketStructure |-> ms, signalConfidence |-> sc,
            activeNarrative |-> an, actionPlan |-> ap])

\* the JSON objects a timeframe entry ranges over: the top-level fields in
\* every combination, and the confidence with every narrative and plan
EntryInputs ==
    {Entry(mc, ms, sc, Missing, Missing) :
        mc \in {Missing, Null, Str(""), Str("BULL_TREND")},
        ms \in {Missing, Str(""), Str("BOS")},
        sc \in {Missing, Num(0), Num(75)}} \cup
    {Entry(Missing, Missing, sc, an, ap) :
        sc \in {Missing, Num(0), Num(75)},
        an \in NarrativeInputs,
        ap \in PlanInputs}

\* what the entries of the other two timeframes range over
SiblingInputs ==
    {<<Missing, Missing>>, <<EmptyDict, EmptyDict>>,
     <<Str("oops"), EmptyDict>>, <<EmptyDict, Str("oops")>>}

\* the first of two sibling timeframes, in the order 15m, 1h, 1d
FirstOf(S) == IF "15m" \in S THEN "15m" ELSE "1h"

\* one timeframe's entry ranges over EntryInputs, its siblings over SiblingInputs
RichPayloads ==
    {Object([tf \in Timeframes |->
                IF tf = v THEN e
                ELSE IF tf = FirstOf(Timeframes \ {v}) THEN sib[1] ELSE sib[2]]).d :
        v \in Timeframes, e \in EntryInputs, sib \in SiblingInputs}

\* prose without cues, and prose holding a cue for every inferred field and
\* two prices
PlainProse == <<WORD>>
CueProse == <<CUE.BROKEN_OUT, CUE.GO_LONG, CUE.ENTER_NOW, "3000", "50,000">>
Proses == {<<>>, PlainProse, CueProse}

Protocol(prose) == prose \o <<DS, LB, MEMBER, RB, DE>>

InferInit ==
    /\ pc = "ready"
    /\ response_text \in {Protocol(prose) : prose \in Proses}
    /\ payload \in RichPayloads
    /\ parse_result = NotCalled
    /\ multi_result = NotCalled
    /\ other_text = <<>>
    /\ other_result = NotCalled
    /\ PipelineIdle

SpecInfer == InferInit /\ [][Next]_vars

---------------------------------------------------------------------------
(* Extraction strategies, one by one *)

\* the span strategy k of _extract_json selects on its own, k in 1..4
StrategySpan(k, text) ==
    LET m == CASE k = 1 -> MatchDelimiters(text)
               [] k = 2 -> MatchJsonFence(text)
               [] k = 3 -> MatchPlainFence(text)
               [] k = 4 -> MatchBraces(text)
    IN  IF m.none \/ k = 4 THEN m ELSE [none |-> FALSE, span |-> CleanFences(m.span)]

\* what strategy k yields: the parsed object, or none
StrategyValue(k, text) ==
    LET m == StrategySpan(k, text)
    IN  IF m.none \/ m.span = <<>> THEN NoneValue ELSE safe_json_loads(m.span)

Yielding(text) == {k \in 1..4 : ~StrategyValue(k, text).none}

\* C2: parse returns the result of the first strategy that yields valid JSON,
\* also when an earlier strategy located a span that is not valid JSON.
C2_FirstValidStrategyWins ==
    (pc = "parse" /\ Yielding(response_text) # {}) =>
        /\ parse_result.success
        /\ parse_result.state = StrategyValue(Min(Yielding(response_text)), response_text)

\* C3: a response that is itself a valid JSON payload parses to that payload
\* and leaves no prose.
C3_ValidJsonHasEmptyProse ==
    (pc = "parse" /\ ValidJson(response_text)) =>
        /\ parse_result.success
        /\ parse_result.state = JsonLoads(response_text)
        /\ parse_result.analysis_text = <<>>

\* C4: when the text holds the delimiter pair with valid JSON between them,
\* the parsed state is the direct parse of that span, whatever surrounds it.
C4_DelimitedSpanIsParsed ==
    pc = "parse" =>
        \A i, j \in 1..Len(response_text) :
            (/\ i < j
             /\ response_text[i] = DS
             /\ response_text[j] = DE
             /\ ValidJson(Between(response_text, i, j))) =>
                /\ parse_result.success
                /\ parse_result.state = JsonLoads(Between(response_text, i, j))

\* a result is tagged: nothing was raised, success is a boolean, and a
\* failure carries an error message and the original text
Tagged(r, text) ==
    /\ ~r.raised
    /\ r.success \in BOOLEAN
    /\ ~r.success => (r.error # "" /\ r.analysis_text = text)

\* C5: parse and parse_multi_timeframe never raise; every call returns a
\* tagged result, a failed one with an error message and the original text.
C5_AlwaysTaggedResult ==
    /\ pc = "parse" => Tagged(parse_result, response_text)
    /\ pc = "parse_multi_timeframe" =>
            /\ Tagged(multi_result, response_text)
            /\ ~multi_result.success => multi_result.timeframe_states = NoStates

\* an exception was raised inside parse_multi_timeframe and came back as a
\* failed result
C5_Witness ==
    /\ pc = "parse_multi_timeframe"
    /\ MultiBody(response_text, payload).raised
    /\ ~multi_result.success
    /\ multi_result.analysis_text = response_text

---------------------------------------------------------------------------
(* Field inference on the states of a parsed multi-timeframe response *)

Inferred == pc = "parse_multi_timeframe" /\ multi_result.success

\* a field value that is neither absent, null nor the empty string
NonEmpty(v) == v.k \notin {"missing", "null"} /\ v # Str("")

\* the field of a nested object of a state, Missing when there is none
Field(v, key) == IF IsDict(v) THEN Get(v, key, Missing) ELSE Missing

\* C1: every timeframe state that field inference produced has a non-empty
\* marketCycle, activeNarrative.status and actionPlan.state.
C1_RequiredFieldsNeverEmpty ==
    Inferred =>
        \A tf \in DOMAIN multi_result.timeframe_states :
            LET st == multi_result.timeframe_states[tf]
            IN  /\ NonEmpty(st.marketCycle)
                /\ NonEmpty(Field(st.activeNarrative, "status"))
                /\ NonEmpty(Field(st.actionPlan, "state"))

\* the documented domains of the inferable fields
\* the six inferable fields of a timeframe entry or state x, as a record
Inferable(x) ==
    [status |-> Field(Field(x, "activeNarrative"), "status"),
     direction |-> Field(Field(x, "actionPlan"), "direction"),
     state |-> Field(Field(x, "actionPlan"), "state"),
     marketStructure |-> Field(x, "marketStructure"),
     signalConfidence |-> Field(x, "signalConfidence"),
     key_levels |-> Field(Field(x, "activeNarrative"), "key_levels")]

\* the documented domain of each inferable field
InDomain(name, v) ==
    CASE name = "status" -> v \in {Str(x) : x \in {"FORMING", "TRIGGERED", "FAILED", "COMPLETED"}}
      [] name = "direction" -> v \in {Str(x) : x \in {"LONG", "SHORT", "NEUTRAL"}}
      [] name = "state" -> v \in {Str(x) : x \in {"WAIT", "CONDITIONAL", "ENTER_NOW", "MANAGE_EXIT"}}
      [] name = "marketStructure" -> v \in {Str(x) : x \in {"BOS", "CHOCH", "LIQUIDITY_SWEEP", "RANGE"}}
      [] name = "signalConfidence" -> v.k = "num" /\ 0 <= v.n /\ v.n <= 100
      [] name = "key_levels" ->
            IsDict(v) /\ {"entry_trigger", "invalidation_level", "profit_target_1"} \subseteq DOMAIN v.d

\* C6: a field for which the extracted JSON supplied a value of its domain
\* (signalConfidence 0 included) holds exactly that value in the output state.
C6_SuppliedFieldsKept ==
    Inferred =>
        \A tf \in DOMAIN multi_result.timeframe_states :
            LET given == Inferable(payload[tf])
                out == Inferable(Dict(multi_result.timeframe_states[tf]))
            IN  \A name \in DOMAIN given :
                    InDomain(name, given[name]) => out[name] = given[name]

\* an entry that is an object and whose own inference raises nothing
WellFormedEntry(text, v) == IsDict(v) /\ ~InferState(AnalysisText(text), BuildState(v)).raised

\* C7: when the payload holds a malformed entry for one timeframe, the
\* states of the well-formed timeframes are still returned.
C7_MalformedEntryDoesNotBlockSiblings ==
    (pc = "parse_multi_timeframe" /\ \E tf \in DOMAIN payload : ~IsDict(payload[tf])) =>
        \A tf \in DOMAIN payload :
            WellFormedEntry(response_text, payload[tf]) =>
                /\ multi_result.success
                /\ tf \in DOMAIN multi_result.timeframe_states

---------------------------------------------------------------------------
(* Two responses with per-timeframe prose.  The prose of a response is one
   section per timeframe, each opened by a header token naming the timeframe;
   the slice of a timeframe is the prose of its section. *)

Header(tf) == tf

\* the prose between the header of tf and the next header
SliceOf(text, tf) ==
    LET prose == AnalysisText(text)
        here == Positions(prose, {Header(tf)})
        later == {j \in Positions(prose, {Header(x) : x \in Timeframes}) : j > Min(here)}
    IN  IF here = {} THEN <<>>
        ELSE SubSeq(prose, Min(here) + 1, IF later = {} THEN Len(prose) ELSE Min(later) - 1)

Sliced(s15, s1h, s1d) ==
    <<Header("15m")>> \o s15 \o <<Header("1h")>> \o s1h \o <<Header("1d")>> \o s1d
        \o <<DS, LB, MEMBER, RB, DE>>

SliceProses == {<<>>, <<CUE.GO_SHORT, CUE.PENDING_ORDER>>, <<CUE.BROKEN_OUT, "3000">>}

SlicedTexts == {Sliced(a, b, c) : a \in SliceProses, b \in SliceProses, c \in SliceProses}

\* a payload that supplies every inferable field of every timeframe
GivenEntry ==
    Entry(Str("BULL_TREND"), Str("BOS"), Num(75),
          Object([status |-> Str("TRIGGERED"), probability_value |-> Num(90),
                  key_levels |-> GivenKeyLevels]),
          Object([state |-> Str("ENTER_NOW"), direction |-> Str("SHORT")]))
GivenPayload == [tf \in Timeframes |-> GivenEntry]

CallParseMultiOther ==
    /\ pc = "parse_multi_timeframe"
    /\ other_result' = parse_multi_timeframe(other_text, payload)
    /\ pc' = "both"
    /\ UNCHANGED <<response_text, payload, parse_result, multi_result, other_text, pipeVars, restVars>>

SlicesInit ==
    /\ pc = "ready"
    /\ response_text \in SlicedTexts
    /\ other_text \in SlicedTexts
    /\ payload \in {PlainPayload, GivenPayload}
    /\ parse_result = NotCalled
    /\ multi_result = NotCalled
    /\ other_result = NotCalled
    /\ PipelineIdle

SlicesNext == CallParseMulti \/ CallParseMultiOther

SpecSlices == SlicesInit /\ [][SlicesNext]_vars

\* C8: two responses that agree on the slice of timeframe T (and carry the
\* same payload) give T the same inferred status, direction, action state,
\* market structure and key levels, whatever the other slices say.
C8_InferenceDependsOnOwnSliceOnly ==
    (pc = "both" /\ multi_result.success /\ other_result.success) =>
        \A tf \in DOMAIN multi_result.timeframe_states :
            SliceOf(response_text, tf) = SliceOf(other_text, tf) =>
                LET a == Inferable(Dict(multi_result.timeframe_states[tf]))
                    b == Inferable(Dict(other_result.timeframe_states[tf]))
                IN  \A name \in {"status", "direction", "state", "marketStructure", "key_levels"} :
                        a[name] = b[name]


---------------------------------------------------------------------------
(* ConsensusCalculator.calculate_consensus.  src/core/consensus_calculator.py
   is not among the sources; the engine is modelled from section 4.4 of the
   specification.  Weights and scores are in tenths. *)

WeightScale == 10

\* a table that weighs every timeframe alike
consensus_weights_equal == [tf \in Timeframes |-> WeightScale]

\* main.py line 478: {"15m": 0.3, "1h": 0.6, "1d": 1.0}
consensus_weights == [tf \in Timeframes |-> CASE tf = "15m" -> 3 [] tf = "1h" -> 6 [] tf = "1d" -> WeightScale]

\* "by more than a fixed epsilon": scores are multiples of a tenth, so every
\* epsilon below a tenth decides as zero does
EPSILON == 0

CycleLean(state) ==
    IF state.marketCycle = Str("BULL_TREND") THEN "bullish"
    ELSE IF state.marketCycle = Str("BEAR_TREND") THEN "bearish"
    ELSE "neutral"

\* the lean actionPlan.direction names, "absent" when the plan names none
DirectionLean(state) ==
    IF ~IsDict(state.actionPlan) THEN "absent"
    ELSE IF Get(state.actionPlan, "direction", Missing) = Str("LONG") THEN "bullish"
    ELSE IF Get(state.actionPlan, "direction", Missing) = Str("SHORT") THEN "bearish"
    ELSE IF Get(state.actionPlan, "direction", Missing) = Str("NEUTRAL") THEN "neutral"
    ELSE "absent"

\* the direction overrides the cycle
Lean(state) ==
    IF DirectionLean(state) = "absent" THEN CycleLean(state) ELSE DirectionLean(state)

LeanOf(direction) ==
    CASE direction = "BULLISH" -> "bullish"
      [] direction = "BEARISH" -> "bearish"
      [] direction = "NEUTRAL" -> "neutral"

RECURSIVE Score(_, _)
\* the sum of the weights of the states whose lean is in leans
Score(states, leans) ==
    IF states = <<>> THEN 0
    ELSE (IF Lean(Head(states)) \in leans THEN consensus_weights[Head(states).timeframe] ELSE 0)
         + Score(Tail(states), leans)

RECURSIVE TimeframesLeaning(_, _)
\* the timeframes of the states whose lean is in leans, in input order
TimeframesLeaning(states, leans) ==
    IF states = <<>> THEN <<>>
    ELSE (IF Lean(Head(states)) \in leans THEN <<Head(states).timeframe>> ELSE <<>>)
         \o TimeframesLeaning(Tail(states), leans)

RECURSIVE GCD(_, _)
GCD(a, b) == IF b = 0 THEN a ELSE GCD(b, a % b)

\* the fraction num/den in lowest terms, clamped to [0, 1]
Confidence(num, den) ==
    IF num = 0 \/ den = 0 THEN [num |-> 0, den |-> 1]
    ELSE IF num >= den THEN [num |-> 1, den |-> 1]
    ELSE [num |-> num \div GCD(num, den), den |-> den \div GCD(num, den)]

Abs(x) == IF x < 0 THEN -x ELSE x

ConsensusDirection(bullish, bearish) ==
    IF bullish > bearish + EPSILON THEN "BULLISH"
    ELSE IF bearish > bullish + EPSILON THEN "BEARISH"
    ELSE "NEUTRAL"

AllLeans == {"bullish", "bearish", "neutral"}

ConsensusResult(states, bullish, bearish) ==
    [called |-> TRUE,
     direction |-> ConsensusDirection(bullish, bearish),
     confidence |-> Confidence(Abs(bullish - bearish), Score(states, AllLeans)),
     aligned |-> TimeframesLeaning(states, {LeanOf(ConsensusDirection(bullish, bearish))}),
     conflicting |-> TimeframesLeaning(states, AllLeans \ {LeanOf(ConsensusDirection(bullish, bearish))}),
     bullishScore |-> bullish,
     bearishScore |-> bearish]

calculate_consensus(states) ==
    ConsensusResult(states, Score(states, {"bullish"}), Score(states, {"bearish"}))

---------------------------------------------------------------------------
(* main.py: process_symbol_async and the functions it calls, for one symbol.
   The wall-clock column last_updated is left out of the rows. *)

SYMBOL == "BTC/USDT"

\* the order in which parse_multi_timeframe inserts the timeframes
TimeframeOrder == <<"15m", "1h", "1d">>

\* json.dumps of a value: the text of a column, told apart from the value
json_dumps(v) == [k |-> "text", dumps |-> v]

\* sqlite3 binds None, numbers and strings; a dict or a list raises
Bindable(v) == v.k \in {"null", "str", "num"}

RECURSIVE CopiesOf(_, _, _)
\* one copy per parsed timeframe, in insertion order; each copy gets the
\* symbol (line 411) and the timeframe stamp[tf] (line 412)
CopiesOf(order, timeframe_states, stamp) ==
    IF order = <<>> THEN <<>>
    ELSE (IF Head(order) \in DOMAIN timeframe_states
          THEN <<[symbol |-> SYMBOL, timeframe |-> stamp[Head(order)]]
                    @@ timeframe_states[Head(order)]>>
          ELSE <<>>)
         \o CopiesOf(Tail(order), timeframe_states, stamp)

\* the loop with line 412 writing "15m" on every copy
states_for_consensus_one_stamp(timeframe_states) ==
    CopiesOf(TimeframeOrder, timeframe_states, [tf \in Timeframes |-> "15m"])

\* lines 408-413: a copy of every state, stamped with its own timeframe
states_for_consensus(timeframe_states) ==
    CopiesOf(TimeframeOrder, timeframe_states, [tf \in Timeframes |-> tf])

\* lines 225-239: the row of one timeframe
ConsolidatedRow(tf, state, cons, raw_response, analysis_text) ==
    [stored |-> TRUE,
     marketCycle |-> state.marketCycle,
     activeNarrative |-> json_dumps(state.activeNarrative),
     alternativeNarrative |-> json_dumps(state.alternativeNarrative),
     analysis_text |-> IF tf = "15m" THEN analysis_text ELSE <<>>,
     actionPlan |-> json_dumps(state.actionPlan),
     consensus_score |-> cons.confidence,
     consensus_direction |-> cons.direction,
     raw_response |-> IF tf = "15m" THEN raw_response ELSE <<>>]

RECURSIVE SaveRows(_, _, _, _, _, _)
\* the loop of _save_consolidated_state: one INSERT OR REPLACE and one commit
\* per timeframe; a value sqlite3 cannot bind raises and ends the loop
SaveRows(order, timeframe_states, cons, raw_response, analysis_text, table) ==
    IF order = <<>> THEN [raised |-> FALSE, db |-> table]
    ELSE IF Head(order) \notin DOMAIN timeframe_states
    THEN SaveRows(Tail(order), timeframe_states, cons, raw_response, analysis_text, table)
    ELSE IF ~Bindable(timeframe_states[Head(order)].marketCycle)
    THEN [raised |-> TRUE, db |-> table]
    ELSE SaveRows(Tail(order), timeframe_states, cons, raw_response, analysis_text,
                  insert_or_replace(table, Head(order),
                      ConsolidatedRow(Head(order), timeframe_states[Head(order)], cons,
                                      raw_response, analysis_text)))

_save_consolidated_state(timeframe_states, cons, table, raw_response, analysis_text) ==
    SaveRows(TimeframeOrder, timeframe_states, cons, raw_response, analysis_text, table)

\* llm.analyze on the response its deciding attempt received: the state and
\* the prose when parse succeeds, the failure otherwise
analyze(response) ==
    IF parse(response).success
    THEN [success |-> TRUE, analysis_text |-> parse(response).analysis_text,
          raw_response |-> response]
    ELSE [success |-> FALSE, analysis_text |-> <<>>, raw_response |-> response]

\* the row of the degraded save; the result of analyze has no marketCycle,
\* activeNarrative, alternativeNarrative or actionPlan key, so result.get
\* yields the defaults
_save_timeframe_state(result) ==
    [stored |-> TRUE,
     marketCycle |-> Str("TRADING_RANGE"),
     activeNarrative |-> json_dumps(EmptyDict),
     alternativeNarrative |-> json_dumps(EmptyDict),
     analysis_text |-> result.analysis_text,
     actionPlan |-> json_dumps(EmptyDict),
     consensus_score |-> Confidence(0, 1),
     consensus_direction |-> "NEUTRAL",
     raw_response |-> result.raw_response]

\* _analyze_single_timeframe for every valid timeframe: a timeframe whose
\* analysis succeeds gets the degraded row, the others keep their rows
Degraded(table, timeframes, responses) ==
    [tf \in Timeframes |->
        IF tf \in timeframes /\ analyze(responses[tf]).success
        THEN insert_or_replace(table, tf, _save_timeframe_state(analyze(responses[tf])))[tf]
        ELSE table[tf]]

Providers == {"SiliconFlowProvider", "ContextProvider"}

\* the responses a single-timeframe analysis may receive
SingleResponses == {<<WORD>>, <<WORD, DS, LB, RB, DE>>}

\* what the call at line 378 did: it raised, or it returned a result dict
LlmResult(raised, success, raw_response) ==
    [called |-> TRUE, raised |-> raised, success |-> success, raw_response |-> raw_response]

\* lines 352-357: the K-lines of every timeframe are fetched
Fetch ==
    /\ pc = "ready"
    /\ \E fetched \in SUBSET Timeframes :
        /\ valid_timeframes' = fetched
        /\ pc' = IF fetched = {} THEN "returned_false" ELSE "fetched"
    /\ UNCHANGED <<response_text, payload, parse_result, multi_result, other_text,
                   other_result, llm_result, consensus, llm, db, restVars>>

\* lines 378-384 and 437-442: SiliconFlowProvider.analyze_multi_timeframe
\* takes no rag_context and no news_context, the call raises TypeError
AnalyzeRaises ==
    /\ pc = "fetched"
    /\ llm = "SiliconFlowProvider"
    /\ llm_result' = LlmResult(TRUE, FALSE, <<>>)
    /\ pc' = "returned_false"
    /\ UNCHANGED <<response_text, payload, parse_result, multi_result, other_text,
                   other_result, valid_timeframes, consensus, llm, db, restVars>>

\* lines 378-391: a provider that takes the keywords reports a failure, and
\* every valid timeframe is analysed alone
AnalyzeFails ==
    /\ pc = "fetched"
    /\ llm = "ContextProvider"
    /\ llm_result' = LlmResult(FALSE, FALSE, response_text)
    /\ \E responses \in [valid_timeframes -> SingleResponses] :
        db' = Degraded(db, valid_timeframes, responses)
    /\ pc' = "returned_false"
    /\ UNCHANGED <<response_text, payload, parse_result, multi_result, other_text,
                   other_result, valid_timeframes, consensus, llm, restVars>>

\* lines 378-386: a provider that takes the keywords returns the response
AnalyzeSucceeds ==
    /\ pc = "fetched"
    /\ llm = "ContextProvider"
    /\ llm_result' = LlmResult(FALSE, TRUE, response_text)
    /\ pc' = "analyzed"
    /\ UNCHANGED <<response_text, payload, parse_result, multi_result, other_text,
                   other_result, valid_timeframes, consensus, llm, db, restVars>>

\* lines 396-402: the response is parsed; on failure every valid timeframe
\* is analysed alone and the cycle returns False
ParseResponse ==
    /\ pc = "analyzed"
    /\ multi_result' = parse_multi_timeframe(llm_result.raw_response, payload)
    /\ IF parse_multi_timeframe(llm_result.raw_response, payload).success
       THEN /\ pc' = "parsed"
            /\ db' = db
       ELSE /\ pc' = "returned_false"
            /\ \E responses \in [valid_timeframes -> SingleResponses] :
                db' = Degraded(db, valid_timeframes, responses)
    /\ UNCHANGED <<response_text, payload, parse_result, other_text, other_result,
                   valid_timeframes, llm_result, consensus, llm, restVars>>

\* lines 405-416
Consensus ==
    /\ pc = "parsed"
    /\ consensus' = calculate_consensus(states_for_consensus(multi_result.timeframe_states))
    /\ pc' = "consensus"
    /\ UNCHANGED <<response_text, payload, parse_result, multi_result, other_text,
                   other_result, valid_timeframes, llm_result, llm, db, restVars>>

SaveResult ==
    _save_consolidated_state(multi_result.timeframe_states, consensus, db,
                             llm_result.raw_response, multi_result.analysis_text)

\* lines 419-442
Save ==
    /\ pc = "consensus"
    /\ db' = SaveResult.db
    /\ pc' = IF SaveResult.raised THEN "returned_false" ELSE "returned_true"
    /\ UNCHANGED <<response_text, payload, parse_result, multi_result, other_text,
                   other_result, valid_timeframes, llm_result, consensus, llm, restVars>>

\* the entries a timeframe of the response ranges over
Plan(direction) == Object([direction |-> direction])

PipelineEntries ==
    {Missing,
     Entry(Str("BULL_TREND"), Missing, Missing, Missing, Missing),
     Entry(Str("BULL_TREND"), Missing, Missing, Missing, Plan(Str("LONG"))),
     Entry(Str("BULL_TREND"), Missing, Missing, Missing, Plan(Str("SHORT"))),
     Entry(Str("BEAR_TREND"), Missing, Missing, Missing, Plan(Str("SHORT"))),
     Entry(List(<<>>), Missing, Missing, Missing, Missing)}

PipelinePayloads ==
    {Object([tf \in Timeframes |-> e[tf]]).d : e \in [Timeframes -> PipelineEntries]}

\* protocol responses with and without a direction cue, prose without JSON,
\* and a delimited span that is not JSON
PipelineTexts ==
    {Protocol(PlainProse), Protocol(<<CUE.GO_LONG>>), PlainProse, CueProse,
     <<WORD, DS, LB, DE>>}

PipelineInit ==
    /\ pc = "ready"
    /\ response_text \in PipelineTexts
    /\ payload \in PipelinePayloads
    /\ llm \in Providers
    /\ parse_result = NotCalled
    /\ multi_result = NotCalled
    /\ other_text = <<>>
    /\ other_result = NotCalled
    /\ valid_timeframes = {}
    /\ llm_result = NotCalled
    /\ consensus = NotCalled
    /\ db = EmptyDb
    /\ RestIdle

process_symbol_async ==
    \/ Fetch
    \/ AnalyzeRaises
    \/ AnalyzeFails
    \/ AnalyzeSucceeds
    \/ ParseResponse
    \/ Consensus
    \/ Save

SpecPipeline == PipelineInit /\ [][process_symbol_async]_vars

\* the state inferred from the full prose, starting from an empty entry
ProseState(text) == InferState(text, BuildState(EmptyDict)).st

\* C9: when no extraction strategy finds JSON in the response the provider
\* returned, the cycle ends with a row for every valid timeframe, and the
\* row holds that response's prose in its inferred narrative and plan: the
\* fields inferred from the full prose, starting from an empty state.
C9_NoJsonIsRecoveredByInference ==
    (/\ pc \in {"returned_true", "returned_false"}
     /\ llm_result.called /\ llm_result.success
     /\ _extract_json(llm_result.raw_response).none) =>
        \A tf \in valid_timeframes :
            /\ fetchone(db, tf).stored
            /\ fetchone(db, tf).activeNarrative = json_dumps(ProseState(llm_result.raw_response).activeNarrative)
            /\ fetchone(db, tf).actionPlan = json_dumps(ProseState(llm_result.raw_response).actionPlan)

Range(s) == {s[i] : i \in DOMAIN s}

\* C10: aligned and conflicting partition the timeframes of the states given
\* to calculate_consensus: every input timeframe is in exactly one list, no
\* timeframe is listed twice, and a neutral-leaning timeframe is in
\* conflicting whenever the direction is not NEUTRAL.
C10_AlignedConflictingPartition ==
    consensus.called =>
        /\ Range(consensus.aligned) \cup Range(consensus.conflicting)
               = DOMAIN multi_result.timeframe_states
        /\ Len(consensus.aligned) + Len(consensus.conflicting)
               = Cardinality(DOMAIN multi_result.timeframe_states)
        /\ \A tf \in DOMAIN multi_result.timeframe_states :
               (Lean(multi_result.timeframe_states[tf]) = "neutral"
                    /\ consensus.direction # "NEUTRAL")
                   => tf \in Range(consensus.conflicting)

\* two or more timeframes, a direction, and a neutral-leaning timeframe
C10_Witness ==
    /\ consensus.called
    /\ consensus.direction # "NEUTRAL"
    /\ Cardinality(DOMAIN multi_result.timeframe_states) >= 2
    /\ consensus.aligned # <<>>
    /\ \E tf \in DOMAIN multi_result.timeframe_states :
           Lean(multi_result.timeframe_states[tf]) = "neutral"


---------------------------------------------------------------------------
(* The consensus verdict on the states the pipeline passes in *)

\* the timeframes of the parsed states whose lean is the given one
LeaningTimeframes(lean) ==
    {tf \in DOMAIN multi_result.timeframe_states :
        Lean(multi_result.timeframe_states[tf]) = lean}

\* the documented weight of a set of timeframes, in tenths
DocumentedWeight(S) ==
    (IF "15m" \in S THEN 3 ELSE 0) + (IF "1h" \in S THEN 6 ELSE 0)
        + (IF "1d" \in S THEN 10 ELSE 0)

\* C11: with the weights 0.3, 0.6 and 1.0 the direction is BULLISH exactly
\* when the bullish weight exceeds the bearish weight, BEARISH exactly when
\* the reverse holds, NEUTRAL otherwise; the confidence is the absolute
\* difference over the weight of all input timeframes; three bullish
\* timeframes give BULLISH with confidence 1, equal scores give NEUTRAL
\* with confidence 0.
C11_WeightedDirectionAndConfidence ==
    consensus.called =>
        /\ consensus.direction = "BULLISH"
               <=> DocumentedWeight(LeaningTimeframes("bullish"))
                       > DocumentedWeight(LeaningTimeframes("bearish"))
        /\ consensus.direction = "BEARISH"
               <=> DocumentedWeight(LeaningTimeframes("bearish"))
                       > DocumentedWeight(LeaningTimeframes("bullish"))
        /\ consensus.direction \in {"BULLISH", "BEARISH", "NEUTRAL"}
        /\ consensus.confidence.num * DocumentedWeight(DOMAIN multi_result.timeframe_states)
               = consensus.confidence.den
                    * Abs(DocumentedWeight(LeaningTimeframes("bullish"))
                            - DocumentedWeight(LeaningTimeframes("bearish")))
        /\ LeaningTimeframes("bullish") = Timeframes
               => consensus.direction = "BULLISH" /\ consensus.confidence = [num |-> 1, den |-> 1]
        /\ DocumentedWeight(LeaningTimeframes("bullish"))
               = DocumentedWeight(LeaningTimeframes("bearish"))
               => consensus.direction = "NEUTRAL" /\ consensus.confidence.num = 0

\* two timeframes against the daily one: the daily weight decides, and the
\* confidence is a proper fraction
C11_Witness ==
    /\ consensus.called
    /\ LeaningTimeframes("bullish") = {"15m", "1h"}
    /\ LeaningTimeframes("bearish") = {"1d"}
    /\ consensus.direction = "BEARISH"
    /\ consensus.confidence = [num |-> 1, den |-> 19]


\* the direction of the plan of a parsed state
DirectionOf(tf) == Field(multi_result.timeframe_states[tf].actionPlan, "direction")

\* the parsed timeframes whose plan names the given direction
TimeframesDirected(direction) ==
    {tf \in DOMAIN multi_result.timeframe_states : DirectionOf(tf) = Str(direction)}

\* C12: every state the pipeline passes to the consensus engine has a
\* populated actionPlan.direction, which is LONG, SHORT or NEUTRAL whenever
\* the response supplied none; and the lean of a state with such a direction
\* follows the direction, whatever its marketCycle: the LONG timeframes make
\* the bullish score, the SHORT ones the bearish score, and a timeframe is
\* aligned exactly when its direction is the one of the verdict.
C12_LeanFollowsDirection ==
    consensus.called =>
        /\ \A tf \in DOMAIN multi_result.timeframe_states :
              /\ Truthy(DirectionOf(tf))
              /\ ~Truthy(Field(Field(Dict(payload), tf), "actionPlan"))
                    => DirectionOf(tf) \in {Str("LONG"), Str("SHORT"), Str("NEUTRAL")}
        /\ (\A tf \in DOMAIN multi_result.timeframe_states :
                DirectionOf(tf) \in {Str("LONG"), Str("SHORT"), Str("NEUTRAL")})
            => /\ consensus.bullishScore = DocumentedWeight(TimeframesDirected("LONG"))
               /\ consensus.bearishScore = DocumentedWeight(TimeframesDirected("SHORT"))
               /\ Range(consensus.aligned) =
                    TimeframesDirected(CASE consensus.direction = "BULLISH" -> "LONG"
                                         [] consensus.direction = "BEARISH" -> "SHORT"
                                         [] consensus.direction = "NEUTRAL" -> "NEUTRAL")

\* a bull-trend timeframe with a SHORT plan counted bearish, beside a
\* bull-trend timeframe whose inferred direction is NEUTRAL
C12_Witness ==
    /\ consensus.called
    /\ \E tf \in TimeframesDirected("SHORT") :
          /\ multi_result.timeframe_states[tf].marketCycle = Str("BULL_TREND")
          /\ consensus.bearishScore >= consensus_weights[tf]
    /\ \E tf \in TimeframesDirected("NEUTRAL") :
          /\ multi_result.timeframe_states[tf].marketCycle = Str("BULL_TREND")
          /\ ~Truthy(Field(Field(Dict(payload), tf), "actionPlan"))
    /\ consensus.bullishScore = 0


---------------------------------------------------------------------------
(* src/core/risk_analyzer.py and src/utils/helpers.py.  Prices are whole
   numbers, the win rate is in tenths, and a float is the exact fraction it
   stands for, in lowest terms with a positive denominator. *)

Frac(n, d) ==
    [num |-> (IF d < 0 THEN -n ELSE n) \div GCD(Abs(n), Abs(d)),
     den |-> Abs(d) \div GCD(Abs(n), Abs(d))]

\* account_balance * risk_per_trade with the defaults 10000.0 and 0.02
RISK_AMOUNT == 200

\* lines 39-45 of risk_analyzer.py, 47-50 of helpers.py: any direction but
\* LONG is taken as SHORT
RiskOf(plan) ==
    IF plan.direction = "LONG" THEN plan.entry_price - plan.stop_loss
    ELSE plan.stop_loss - plan.entry_price

RewardOf(plan) ==
    IF plan.direction = "LONG" THEN plan.take_profit - plan.entry_price
    ELSE plan.entry_price - plan.take_profit

\* RiskAnalyzer.calculate_risk_metrics: the RiskMetrics it returns
calculate_risk_metrics(plan) ==
    [called |-> TRUE, raised |-> FALSE,
     risk_reward_ratio |->
        IF RiskOf(plan) > 0 THEN Frac(RewardOf(plan), RiskOf(plan)) ELSE Frac(0, 1),
     win_rate |-> Frac(plan.win_rate, 10),
     position_size |->
        IF RiskOf(plan) > 0 THEN Frac(RISK_AMOUNT, RiskOf(plan)) ELSE Frac(0, 1),
     max_loss |-> Frac(RISK_AMOUNT, 1),
     expected_value |->
        IF RiskOf(plan) > 0
        THEN Frac(RISK_AMOUNT * (plan.win_rate * RewardOf(plan)
                                    - (10 - plan.win_rate) * RiskOf(plan)),
                  10 * RiskOf(plan))
        ELSE Frac(0, 1)]

\* round(x, 2) of the fraction n/d, d > 0: the nearest hundredth
Round2(n, d) == Frac((200 * n + d) \div (2 * d), 100)

\* helpers.calculate_risk_reward
calculate_risk_reward(plan) ==
    [called |-> TRUE, raised |-> FALSE,
     risk_reward_ratio |->
        IF RiskOf(plan) > 0 THEN Round2(RewardOf(plan), RiskOf(plan)) ELSE Frac(0, 1)]

CallRiskMetrics ==
    /\ pc = "ready"
    /\ trade_plan.given
    /\ risk_metrics' = calculate_risk_metrics(trade_plan)
    /\ pc' = "calculate_risk_metrics"
    /\ UNCHANGED <<response_text, payload, parse_result, multi_result, other_text,
                   other_result, pipeVars, trade_plan, trades, saved, got_state,
                   save_result, llmVars>>

CallRiskReward ==
    /\ pc = "ready"
    /\ trade_plan.given
    /\ risk_metrics' = calculate_risk_reward(trade_plan)
    /\ pc' = "calculate_risk_reward"
    /\ UNCHANGED <<response_text, payload, parse_result, multi_result, other_text,
                   other_result, pipeVars, trade_plan, trades, saved, got_state,
                   save_result, llmVars>>

\* the plans: stops and targets on both sides of the entry and on it
TradePlans ==
    [given : {TRUE}, entry_price : {100, 102}, stop_loss : {95, 97, 100, 105},
     take_profit : {90, 100, 105, 110}, direction : {"LONG", "SHORT"},
     win_rate : {3, 5, 6}]

RiskInit ==
    /\ pc = "ready"
    /\ trade_plan \in TradePlans
    /\ risk_metrics = NotCalled
    /\ trades = <<>>
    /\ saved = [tf \in Timeframes |-> Missing]
    /\ got_state = NotCalled
    /\ save_result = NotCalled
    /\ ProviderIdle
    /\ response_text = <<>>
    /\ payload = PlainPayload
    /\ parse_result = NotCalled
    /\ multi_result = NotCalled
    /\ other_text = <<>>
    /\ other_result = NotCalled
    /\ valid_timeframes = {}
    /\ llm_result = NotCalled
    /\ consensus = NotCalled
    /\ llm = "SiliconFlowProvider"
    /\ db = EmptyDb

RiskNext == CallRiskMetrics \/ CallRiskReward

SpecRisk == RiskInit /\ [][RiskNext]_vars

\* the stop is on the loss side of the entry for the stated direction
StopOnLossSide(plan) ==
    \/ plan.direction = "LONG" /\ plan.stop_loss < plan.entry_price
    \/ plan.direction = "SHORT" /\ plan.stop_loss > plan.entry_price

\* C13: a plan whose stop is on the wrong side of the entry for its
\* direction, the entry itself included, makes the risk calculation fail
\* (InvalidTradePlan) instead of returning risk figures.
C13_WrongSideStopIsRejected ==
    (risk_metrics.called /\ ~StopOnLossSide(trade_plan)) => risk_metrics.raised

\* C14: for every plan whose stop is on the loss side of the entry the
\* risk/reward ratio is |target1 - entry| / |entry - stop|, never negative.
C14_RiskRewardIsAbsoluteRatio ==
    (risk_metrics.called /\ StopOnLossSide(trade_plan)) =>
        /\ risk_metrics.risk_reward_ratio =
              Frac(Abs(trade_plan.take_profit - trade_plan.entry_price),
                   Abs(trade_plan.entry_price - trade_plan.stop_loss))
        /\ risk_metrics.risk_reward_ratio.num >= 0

\* the Kelly position in percent for win rate p (tenths) and odds bn/bd > 0:
\* max(0, (p*b - q)/b) * 0.8 * 100
KellyPosition(p, b) ==
    IF p * b.num - (10 - p) * b.den <= 0 THEN Frac(0, 1)
    ELSE Frac((p * b.num - (10 - p) * b.den) * 80, 10 * b.num)

\* C15: the suggested position is the Kelly one, max(0, f*) * 0.8 * 100 with
\* f* = (p*b - q)/b, and so is 0 whenever the raw Kelly fraction is negative.
C15_PositionIsKellyBased ==
    (pc = "calculate_risk_metrics" /\ risk_metrics.risk_reward_ratio.num > 0) =>
        risk_metrics.position_size =
            KellyPosition(trade_plan.win_rate, risk_metrics.risk_reward_ratio)

---------------------------------------------------------------------------
(* The risk-analysis records of the trades table (DatabaseManager) *)

\* the number of records the model creates
MaxAnalyses == 2

\* INSERT INTO trades: the new row gets the next id and the status ANALYZED;
\* the result columns and outcome_feedback are not in the column list
create_risk_analysis(table) ==
    Append(table, [status |-> "ANALYZED", outcome_feedback |-> Null, risk_level |-> Null])

\* UPDATE trades SET <result columns> WHERE id = ?: no row, no change
update_risk_analysis_result(table, analysis_id, risk_level) ==
    [id \in DOMAIN table |->
        IF id = analysis_id THEN [table[id] EXCEPT !.risk_level = Str(risk_level)]
        ELSE table[id]]

\* UPDATE trades SET status = 'CLOSED', outcome_feedback = ? WHERE id = ?
close_risk_analysis(table, analysis_id, outcome_feedback) ==
    [id \in DOMAIN table |->
        IF id = analysis_id
        THEN [table[id] EXCEPT !.status = "CLOSED",
                               !.outcome_feedback = Str(outcome_feedback)]
        ELSE table[id]]

\* UPDATE trades SET status = 'EXPIRED' WHERE id = ?
expire_risk_analysis(table, analysis_id) ==
    [id \in DOMAIN table |->
        IF id = analysis_id THEN [table[id] EXCEPT !.status = "EXPIRED"]
        ELSE table[id]]

\* the ids a caller passes: those of the records and one that has no record
AnalysisIds == 1..(MaxAnalyses + 1)

TradesUnchanged ==
    UNCHANGED <<response_text, payload, parse_result, multi_result, other_text,
                other_result, pipeVars, trade_plan, risk_metrics, saved, got_state,
                save_result, llmVars>>

CreateRiskAnalysis ==
    /\ Len(trades) < MaxAnalyses
    /\ trades' = create_risk_analysis(trades)
    /\ pc' = "create_risk_analysis"
    /\ TradesUnchanged

UpdateRiskAnalysisResult ==
    /\ \E analysis_id \in AnalysisIds, risk_level \in {"LOW", "HIGH"} :
          trades' = update_risk_analysis_result(trades, analysis_id, risk_level)
    /\ pc' = "update_risk_analysis_result"
    /\ TradesUnchanged

CloseRiskAnalysis ==
    /\ \E analysis_id \in AnalysisIds, outcome_feedback \in {"CLOSED", "WIN"} :
          trades' = close_risk_analysis(trades, analysis_id, outcome_feedback)
    /\ pc' = "close_risk_analysis"
    /\ TradesUnchanged

ExpireRiskAnalysis ==
    /\ \E analysis_id \in AnalysisIds :
          trades' = expire_risk_analysis(trades, analysis_id)
    /\ pc' = "expire_risk_analysis"
    /\ TradesUnchanged

TradesInit ==
    /\ pc = "ready"
    /\ response_text = <<>>
    /\ payload = PlainPayload
    /\ parse_result = NotCalled
    /\ multi_result = NotCalled
    /\ other_text = <<>>
    /\ other_result = NotCalled
    /\ PipelineIdle

TradesNext ==
    \/ CreateRiskAnalysis
    \/ UpdateRiskAnalysisResult
    \/ CloseRiskAnalysis
    \/ ExpireRiskAnalysis

SpecTrades == TradesInit /\ [][TradesNext]_vars

\* C16: a record is created ANALYZED, and a record that is CLOSED or EXPIRED
\* keeps its status through every later create, update, close and expire call.
C16_TerminalStatusNeverChanges ==
    [][/\ \A id \in DOMAIN trades :
             trades[id].status \in {"CLOSED", "EXPIRED"} =>
                 trades'[id].status = trades[id].status
       /\ \A id \in DOMAIN trades' \ DOMAIN trades : trades'[id].status = "ANALYZED"]_vars

---------------------------------------------------------------------------
(* Repeated analysis cycles on one database *)

\* the number of saves of one (symbol, timeframe) the model follows
MaxSaves == 2

\* the scheduler runs the analysis cycle again: process_symbol_async starts
\* afresh for the symbol, on the database the earlier cycles left
NextCycle ==
    /\ pc \in {"returned_true", "returned_false"}
    /\ \A tf \in Timeframes : Len(db[tf]) < MaxSaves
    /\ pc' = "ready"
    /\ valid_timeframes' = {}
    /\ llm_result' = NotCalled
    /\ multi_result' = NotCalled
    /\ consensus' = NotCalled
    /\ UNCHANGED <<response_text, payload, parse_result, other_text, other_result,
                   llm, db, restVars>>

\* the entries of a timeframe in the cycles: two that are saved and one whose
\* marketCycle cannot be bound
CycleEntries ==
    {Entry(Str("BULL_TREND"), Missing, Missing, Missing, Plan(Str("LONG"))),
     Entry(Str("BEAR_TREND"), Missing, Missing, Missing, Plan(Str("SHORT"))),
     Entry(List(<<>>), Missing, Missing, Missing, Missing)}

CyclesInit ==
    /\ pc = "ready"
    /\ response_text \in {Protocol(PlainProse), Protocol(<<CUE.GO_LONG>>), PlainProse}
    /\ payload \in {Object([tf \in Timeframes |-> e[tf]]).d : e \in [Timeframes -> CycleEntries]}
    /\ llm \in Providers
    /\ parse_result = NotCalled
    /\ multi_result = NotCalled
    /\ other_text = <<>>
    /\ other_result = NotCalled
    /\ valid_timeframes = {}
    /\ llm_result = NotCalled
    /\ consensus = NotCalled
    /\ db = EmptyDb
    /\ RestIdle

CyclesNext == process_symbol_async \/ NextCycle

SpecCycles == CyclesInit /\ [][CyclesNext]_vars

\* C17: after any sequence of saves at most one row is persisted for a
\* (symbol, timeframe), and reading the key returns the row of the most
\* recent save for it.
C17_ReplaceOnWrite ==
    \A tf \in Timeframes :
        /\ Len(db[tf]) <= 1
        /\ db[tf] # <<>> => fetchone(db, tf) = db[tf][Len(db[tf])]

---------------------------------------------------------------------------
(* DatabaseManager.save_state and get_state *)

\* json.loads of a column json.dumps wrote
json_loads(text) == text.dumps

\* lines 146-164: the risk_reward column, in hundredths: the provided value
\* when it is positive, else |target - entry| / |entry - stop| rounded to
\* two decimals when the three levels are truthy and entry differs from stop
RiskRewardColumn(active, levels) ==
    IF Truthy(Get(active, "risk_reward", Num(0))) /\ Get(active, "risk_reward", Num(0)).n > 0
    THEN Get(active, "risk_reward", Num(0))
    ELSE IF /\ Truthy(Get(levels, "entry_trigger", Null))
            /\ Truthy(Get(levels, "invalidation_level", Null))
            /\ Truthy(Get(levels, "profit_target_1", Null))
            /\ Get(levels, "entry_trigger", Null) # Get(levels, "invalidation_level", Null)
    THEN Num((200 * Abs(Get(levels, "profit_target_1", Null).n - Get(levels, "entry_trigger", Null).n)
                 + Abs(Get(levels, "entry_trigger", Null).n - Get(levels, "invalidation_level", Null).n))
             \div (2 * Abs(Get(levels, "entry_trigger", Null).n - Get(levels, "invalidation_level", Null).n)))
    ELSE Num(0)

\* lines 172-203: the columns of the INSERT and the values bound to them
StateRow(state, active, levels, alternative) ==
    [stored |-> TRUE,
     market_cycle |-> Get(state, "marketCycle", Null),
     active_pattern |-> Get(active, "pattern_name", Null),
     pattern_status |-> Get(active, "status", Null),
     entry_trigger |-> Get(levels, "entry_trigger", Null),
     invalidation_level |-> Get(levels, "invalidation_level", Null),
     profit_target_1 |-> Get(levels, "profit_target_1", Null),
     pattern_comment |-> Get(active, "comment", Null),
     alternative_pattern |-> Get(alternative, "pattern_name", Null),
     alternative_trigger |-> Get(alternative, "trigger_condition", Null),
     raw_response |-> Get(state, "raw_response", Str("")),
     analysis_text |-> Get(state, "analysis_text", Str("")),
     probability |-> Get(active, "probability", Str("")),
     probability_value |-> Get(active, "probability_value", Num(0)),
     risk_reward |-> RiskRewardColumn(active, levels),
     action_plan |-> IF Truthy(Get(state, "actionPlan", Null))
                     THEN json_dumps(Get(state, "actionPlan", Null)) ELSE Null]

\* save_state on a states table that has the columns the INSERT names: the
\* old rows of the key are deleted and the new row inserted in one
\* transaction; a value sqlite3 cannot bind raises, the transaction is
\* rolled back and False is returned
ReplaceRow(table, tf, row) ==
    IF \E column \in DOMAIN row \ {"stored"} : row[column].k \in {"dict", "list"}
    THEN [returned |-> FALSE, db |-> table]
    ELSE [returned |-> TRUE, db |-> [table EXCEPT ![tf] = <<row>>]]

save_state(table, tf, state) ==
    ReplaceRow(table, tf,
               StateRow(state, Get(state, "activeNarrative", EmptyDict),
                        Get(Get(state, "activeNarrative", EmptyDict), "key_levels", EmptyDict),
                        Get(state, "alternativeNarrative", EmptyDict)))

\* x or default
Or(x, default) == IF Truthy(x) THEN x ELSE default

\* lines 85-110: the dict get_state builds from the row
StateOfRow(row) ==
    Object([marketCycle |-> row.market_cycle,
            activeNarrative |->
                Object([pattern_name |-> row.active_pattern,
                        status |-> row.pattern_status,
                        key_levels |-> Object([entry_trigger |-> row.entry_trigger,
                                               invalidation_level |-> row.invalidation_level,
                                               profit_target_1 |-> row.profit_target_1]),
                        comment |-> row.pattern_comment,
                        probability |-> Or(row.probability, Str("")),
                        probability_value |-> Or(row.probability_value, Num(0)),
                        risk_reward |-> Or(row.risk_reward, Num(0))]),
            alternativeNarrative |->
                Object([pattern_name |-> row.alternative_pattern,
                        trigger_condition |-> row.alternative_trigger]),
            raw_response |-> Or(row.raw_response, Str("")),
            analysis_text |-> Or(row.analysis_text, Str("")),
            actionPlan |-> IF row.action_plan = Null THEN Null
                           ELSE json_loads(row.action_plan)])

get_state(table, tf) ==
    IF fetchone(table, tf) = NoRow THEN Null ELSE StateOfRow(fetchone(table, tf))

\* complete TimeframeStates: every documented field is present; the
\* marketCycle is a string or a value sqlite3 cannot bind, the risk_reward
\* given or left at 0, the plan empty or filled
StateInputs ==
    {Object([marketCycle |-> mc,
             marketStructure |-> Str("BOS"),
             signalConfidence |-> Num(80),
             activeNarrative |->
                 Object([pattern_name |-> Str("wedge"), pattern_quality |-> Num(4),
                         status |-> Str("TRIGGERED"), probability |-> Str("High"),
                         probability_value |-> Num(90), risk_reward |-> rr,
                         key_levels |-> Put(GivenKeyLevels, "profit_target_2", Num(430000)),
                         comment |-> Str("c"), volume_comment |-> Str("v")]),
             alternativeNarrative |->
                 Object([pattern_name |-> Str("flag"), trigger_condition |-> Str("t")]),
             actionPlan |-> ap,
             analysis_text |-> Str("prose")]) :
        mc \in {Str("BULL_TREND"), EmptyList},
        rr \in {Num(0), Num(250)},
        ap \in {EmptyDict, Object([state |-> Str("ENTER_NOW"), direction |-> Str("LONG")])}}

StoreUnchanged ==
    UNCHANGED <<response_text, payload, parse_result, multi_result, other_text,
                other_result, valid_timeframes, llm_result, consensus, llm,
                trade_plan, risk_metrics, trades, llmVars>>

\* what a call of the storage layer did: unreachable tells whether the
\* database operation behind it failed, raised and returned are what the
\* caller sees
StoreResult(unreachable, raised, returned) ==
    [called |-> TRUE, unreachable |-> unreachable, raised |-> raised, returned |-> returned]

SaveState ==
    /\ \E tf \in Timeframes, state \in StateInputs :
        \E result \in {save_state(db, tf, state)} :
            /\ db' = result.db
            /\ saved' = IF result.returned THEN [saved EXCEPT ![tf] = state] ELSE saved
            /\ save_result' = StoreResult(FALSE, FALSE, result.returned)
    /\ pc' = "save_state"
    /\ UNCHANGED got_state
    /\ StoreUnchanged

\* lines 127-128 and 209-211: sqlite3.connect or a statement raises, the
\* except clause logs the error and save_state returns False
SaveStateUnreachable ==
    /\ save_result' = StoreResult(TRUE, FALSE, FALSE)
    /\ pc' = "save_state"
    /\ UNCHANGED <<db, saved, got_state>>
    /\ StoreUnchanged

GetState ==
    /\ \E tf \in Timeframes :
        \E state \in {get_state(db, tf)} :
            got_state' = StoreResult(FALSE, FALSE, state) @@
                         [timeframe |-> tf, state |-> state]
    /\ pc' = "get_state"
    /\ UNCHANGED <<db, saved, save_result>>
    /\ StoreUnchanged

\* lines 70-71 and 111-113: sqlite3.connect or the SELECT raises, the
\* except clause logs the error and get_state returns None
GetStateUnreachable ==
    /\ \E tf \in Timeframes :
        got_state' = StoreResult(TRUE, FALSE, Null) @@ [timeframe |-> tf, state |-> Null]
    /\ pc' = "get_state"
    /\ UNCHANGED <<db, saved, save_result>>
    /\ StoreUnchanged

StoreInit == TradesInit

StoreNext == SaveState \/ SaveStateUnreachable \/ GetState \/ GetStateUnreachable

SpecStore == StoreInit /\ [][StoreNext]_vars

\* C18: get_state after save_state on the same (symbol, timeframe) returns
\* a state equal to the saved one in marketCycle, marketStructure,
\* signalConfidence, activeNarrative (key_levels.profit_target_2 and
\* risk_reward included), alternativeNarrative, actionPlan and the analysis
\* text.
C18_RoundTrip ==
    (got_state.called /\ saved[got_state.timeframe] # Missing) =>
        \A field \in {"marketCycle", "marketStructure", "signalConfidence",
                      "activeNarrative", "alternativeNarrative", "actionPlan",
                      "analysis_text"} :
            Field(got_state.state, field) = Field(saved[got_state.timeframe], field)

---------------------------------------------------------------------------
(* The writes of one cycle *)

\* the newest row of the timeframe is the one this cycle's consolidated
\* save writes for it
HoldsNewState(tf) ==
    /\ db[tf] # <<>>
    /\ db[tf][Len(db[tf])] =
          ConsolidatedRow(tf, multi_result.timeframe_states[tf], consensus,
                          llm_result.raw_response, multi_result.analysis_text)

\* C19: once _save_consolidated_state has run, either every timeframe of
\* the cycle holds its new state and the new consensus or none of them was
\* written, also when a write fails partway through the timeframes.
C19_SaveIsAllOrNothing ==
    (consensus.called /\ pc \in {"returned_true", "returned_false"}) =>
        \/ \A tf \in DOMAIN multi_result.timeframe_states : HoldsNewState(tf)
        \/ \A tf \in DOMAIN multi_result.timeframe_states : db[tf] = <<>>

\* C20: when a cycle has already persisted the states and the consensus of
\* this response text, running the pipeline on the same text again leaves
\* the persisted states as they were.
C20_SecondRunChangesNothing ==
    [][(/\ pc = "consensus"
        /\ \A tf \in DOMAIN multi_result.timeframe_states : HoldsNewState(tf))
          => db' = db]_vars

---------------------------------------------------------------------------
(* Storage failures *)

\* what the caller of get_state or save_state can observe of a call
Observed(result) == [raised |-> result.raised, returned |-> result.returned]

\* C21: when the database operation behind get_state or save_state fails,
\* what the caller observes differs from what it observes when no state is
\* stored and from what it observes after a successful write.
C21_StorageFailureIsDistinguishable ==
    /\ (got_state.called /\ got_state.unreachable) =>
          Observed(got_state) # Observed(StoreResult(FALSE, FALSE, get_state(EmptyDb, "15m")))
    /\ (save_result.called /\ save_result.unreachable) =>
          Observed(save_result) # Observed(StoreResult(FALSE, FALSE, TRUE))

---------------------------------------------------------------------------
(* Inference on prose that mixes the cues *)

\* the length of the prose before the delimited JSON
MaxCues == 2

\* the prose tokens: every direction cue, every action-state cue, two
\* prices and a word that is no cue
CueTokens ==
    {CUE.BULLISH, CUE.GO_LONG, CUE.LONG, CUE.BEARISH, CUE.GO_SHORT, CUE.SHORT,
     CUE.FALLING, CUE.BEARS, CUE.RISING, CUE.BULLS,
     CUE.ENTER_AT_MARKET, CUE.ENTER_NOW, CUE.PENDING_ORDER, CUE.WAIT_FOR,
     CUE.WAIT_CONFIRM, CUE.STAND_ASIDE, "3000", "50,000", WORD}

CueProses == UNION {[1..n -> CueTokens] : n \in 0..MaxCues}

\* the entry every timeframe of the response carries: nothing, a narrative
\* with a probability_value in each band, or a given signalConfidence
CueEntries ==
    {EmptyDict, Entry(Missing, Missing, Num(75), Missing, Missing)} \cup
    {Entry(Missing, Missing, Missing, Object([probability_value |-> Num(p)]), Missing) :
        p \in {0, 30, 40, 70, 90}}

CuesInit ==
    /\ pc = "ready"
    /\ response_text \in {Protocol(prose) : prose \in CueProses}
    /\ payload \in {[tf \in Timeframes |-> e] : e \in CueEntries}
    /\ parse_result = NotCalled
    /\ multi_result = NotCalled
    /\ other_text = <<>>
    /\ other_result = NotCalled
    /\ PipelineIdle

SpecCues == CuesInit /\ [][Next]_vars

\* the vocabulary of the direction rule
BullishCues == {CUE.BULLISH, CUE.GO_LONG, CUE.LONG, CUE.RISING, CUE.BULLS}
BearishCues == {CUE.BEARISH, CUE.GO_SHORT, CUE.SHORT, CUE.FALLING, CUE.BEARS}

HasAny(text, cues) == \E cue \in cues : Has(text, cue)

\* the timeframes of the result whose entry gave no value for the plan field
PlanFieldMissing(field) ==
    {tf \in DOMAIN multi_result.timeframe_states :
        ~Truthy(Field(Field(payload[tf], "actionPlan"), field))}

\* C22: a missing actionPlan.direction becomes LONG when the prose holds any
\* bullish cue, bearish cues or not, SHORT when it holds bearish cues only,
\* and NEUTRAL when it holds neither.
C22_DirectionPrecedence ==
    (multi_result.called /\ multi_result.success) =>
        \A tf \in PlanFieldMissing("direction") :
            DirectionOf(tf) =
                Str(IF HasAny(multi_result.analysis_text, BullishCues) THEN "LONG"
                    ELSE IF HasAny(multi_result.analysis_text, BearishCues) THEN "SHORT"
                    ELSE "NEUTRAL")

\* the action states the rule allows for a prose: ENTER_NOW with an
\* immediate-entry cue, else CONDITIONAL with the pending-order word, else
\* WAIT; the bare word for waiting may count as either of the last two
AllowedActionStates(text) ==
    IF HasAny(text, {CUE.ENTER_AT_MARKET, CUE.ENTER_NOW}) THEN {"ENTER_NOW"}
    ELSE IF Has(text, CUE.PENDING_ORDER) THEN {"CONDITIONAL"}
    ELSE IF \E i \in 1..Len(text) : text[i] = CUE.WAIT_FOR THEN {"CONDITIONAL", "WAIT"}
    ELSE {"WAIT"}

\* C23: a missing actionPlan.state becomes ENTER_NOW on immediate-entry
\* vocabulary, else CONDITIONAL on pending-order vocabulary, else WAIT, also
\* for prose whose only cue is wait-for-confirmation or stand-aside.
C23_ActionStatePrecedence ==
    (multi_result.called /\ multi_result.success) =>
        \A tf \in PlanFieldMissing("state") :
            \E state \in AllowedActionStates(multi_result.analysis_text) :
                Field(multi_result.timeframe_states[tf].actionPlan, "state") = Str(state)

\* the documented bands, probability in hundredths; absent counts as below
DocumentedBand(prob) ==
    IF prob.k # "num" THEN 50
    ELSE IF prob.n >= 80 THEN 80
    ELSE IF prob.n >= 60 THEN 60
    ELSE IF prob.n >= 40 THEN 40
    ELSE 50

\* C24: when the entry of a timeframe gives no signalConfidence, the
\* signalConfidence of its state is the band of
\* activeNarrative.probability_value (80, 60, 40, and 50 below 0.4 or
\* without a probability_value).
C24_ConfidenceFollowsBands ==
    (multi_result.called /\ multi_result.success) =>
        \A tf \in DOMAIN multi_result.timeframe_states :
            Field(payload[tf], "signalConfidence") = Missing =>
                multi_result.timeframe_states[tf].signalConfidence =
                    Num(DocumentedBand(Field(Field(payload[tf], "activeNarrative"),
                                             "probability_value")))

---------------------------------------------------------------------------
(* Prose that holds numbers *)

\* the length of the prose of numbers
MaxNumbers == 3

\* numbers below, inside and above the 4 to 8 digits of the pattern, with a
\* thousands separator, with decimals, with leading zeros, and a word
NumberTokens == {"500", "3000", "50,000", "3000.5", "0099", "123456789", WORD}

PricesInit ==
    /\ pc = "ready"
    /\ response_text \in {Protocol(prose) :
                             prose \in UNION {[1..n -> NumberTokens] : n \in 0..MaxNumbers}}
    /\ payload = PlainPayload
    /\ parse_result = NotCalled
    /\ multi_result = NotCalled
    /\ other_text = <<>>
    /\ other_result = NotCalled
    /\ PipelineIdle

SpecPrices == PricesInit /\ [][Next]_vars

\* the value of a numeric token in tenths, separators normalized
TokenValue(tok) ==
    CASE tok = "500" -> {5000}
      [] tok = "3000" -> {30000}
      [] tok = "50,000" -> {500000}
      [] tok = "3000.5" -> {30005}
      [] tok = "0099" -> {990}
      [] tok = "123456789" -> {1234567890}
      [] OTHER -> {}

\* C25: the prices extracted from the prose are the values of its numeric
\* tokens that lie in 100 to 10,000,000, no other value and none of them
\* left out.
C25_PricesAreTheNumbersInRange ==
    (multi_result.called /\ multi_result.success) =>
        {10 * price : price \in _extract_prices_from_text(multi_result.analysis_text)} =
        {v \in UNION {TokenValue(multi_result.analysis_text[i]) :
                         i \in 1..Len(multi_result.analysis_text)} :
            10 * PRICE_MIN <= v /\ v <= 10 * PRICE_MAX}

\* the position of the "}" that brings the bracket depth back to zero,
\* counting from position i at the given depth; 0 when there is none
RECURSIVE ClosingBrace(_, _, _)
ClosingBrace(text, i, depth) ==
    IF i > Len(text) THEN 0
    ELSE IF text[i] = LB THEN ClosingBrace(text, i + 1, depth + 1)
    ELSE IF text[i] = RB /\ depth = 1 THEN i
    ELSE IF text[i] = RB THEN ClosingBrace(text, i + 1, depth - 1)
    ELSE ClosingBrace(text, i + 1, depth)

\* the span from the first "{" to its matching "}", by depth counting
FirstObject(text) ==
    IF Positions(text, {LB}) = {} THEN <<>>
    ELSE SubSeq(text, Min(Positions(text, {LB})),
                ClosingBrace(text, Min(Positions(text, {LB})), 0))

\* C26: when only the brace fallback applies, the text parses to the object
\* from its first "{" to the matching "}" found by depth counting, also
\* when later prose holds further braces.
C26_BraceFallbackTakesFirstObject ==
    (/\ pc = "parse"
     /\ \A k \in 1..3 : StrategySpan(k, response_text).none
     /\ ValidJson(FirstObject(response_text))) =>
        /\ parse_result.success
        /\ parse_result.state = JsonLoads(FirstObject(response_text))

\* the key levels of a timeframe's state, and whether inference filled them
\* (the entry of the response gave none and the state holds some)
KeyLevelsOf(tf) == Field(multi_result.timeframe_states[tf].activeNarrative, "key_levels")

LevelsInferred(tf) ==
    /\ ~Truthy(Field(Field(payload[tf], "activeNarrative"), "key_levels"))
    /\ Truthy(KeyLevelsOf(tf))

Level(tf, name) == Field(KeyLevelsOf(tf), name).n

\* C29: key levels filled by inference agree with the direction of the
\* state's plan: for LONG the invalidation level is below the entry and the
\* profit target above it, for SHORT the other way round.
C29_InferredLevelsMatchDirection ==
    (multi_result.called /\ multi_result.success) =>
        \A tf \in DOMAIN multi_result.timeframe_states :
            LevelsInferred(tf) =>
                /\ DirectionOf(tf) = Str("LONG") =>
                    /\ Level(tf, "invalidation_level") < Level(tf, "entry_trigger")
                    /\ Level(tf, "entry_trigger") < Level(tf, "profit_target_1")
                /\ DirectionOf(tf) = Str("SHORT") =>
                    /\ Level(tf, "profit_target_1") < Level(tf, "entry_trigger")
                    /\ Level(tf, "entry_trigger") < Level(tf, "invalidation_level")

\* the rows the states table holds for the symbol, over all its timeframes
PersistedRows == UNION {{db[tf][i] : i \in 1..Len(db[tf])} : tf \in Timeframes}

\* C30: after any sequence of analysis cycles, full, partial or degraded,
\* all persisted timeframe rows of the symbol carry the same
\* consensus_direction and the same consensus_score.
C30_RowsShareConsensus ==
    \A row, other \in PersistedRows :
        /\ row.consensus_direction = other.consensus_direction
        /\ row.consensus_score = other.consensus_score

---------------------------------------------------------------------------
(* SiliconFlowProvider: the retry loops of analyze and
   analyze_multi_timeframe.  An attempt is one pass of the loop body, with
   its one _call_api. *)

MaxRetries == 3

\* what a _call_api gives: the response text, a
\* requests.exceptions.RequestException, or any other exception
Response(text) == [kind |-> "response", text |-> text]
RequestException == [kind |-> "RequestException", text |-> <<>>]
OtherException == [kind |-> "Exception", text |-> <<>>]

\* prose without JSON, a delimited span that is not JSON, a delimited empty
\* object, the protocol response, and a delimited array
ProviderResponses ==
    {<<WORD>>, <<WORD, DS, LB, DE>>, <<WORD, DS, LB, RB, DE>>, Protocol(PlainProse),
     <<WORD, DS, ARRAY, DE>>}

ApiOutcomes == {RequestException, OtherException} \cup {Response(text) : text \in ProviderResponses}

\* parser.parse was not called after the loop
NoFallback == [called |-> FALSE]

\* the result dicts; single_parse records the parser.parse call made after
\* the loop and fallback is the result's "fallback" key
ProviderSuccess(analysis_text, raw_response) ==
    [called |-> TRUE, raised |-> FALSE, success |-> TRUE, error |-> "",
     analysis_text |-> analysis_text, raw_response |-> raw_response,
     fallback |-> FALSE, single_parse |-> NoFallback]

ProviderFailure(error, raw_response) ==
    [called |-> TRUE, raised |-> FALSE, success |-> FALSE, error |-> error,
     analysis_text |-> <<>>, raw_response |-> raw_response,
     fallback |-> FALSE, single_parse |-> NoFallback]

\* "if attempt == self.max_retries - 1: return {...}": the failure is
\* returned on the last pass, the loop goes on otherwise
ReturnOnLast(last, error, raw_response) ==
    IF last THEN ProviderFailure(error, raw_response) ELSE NotCalled

\* lines 205-256, one pass of the loop of analyze: parsed is what
\* parser.parse returned for a response.  A parsed state that is not a dict
\* makes state["last_updated"] = ... raise TypeError, which the except
\* clause of line 248 catches.
analyze_attempt(outcome, parsed, last) ==
    IF outcome.kind = "RequestException" THEN ReturnOnLast(last, "API request failed", <<>>)
    ELSE IF outcome.kind = "Exception" THEN ReturnOnLast(last, "Unexpected error", <<>>)
    ELSE IF ~parsed.success THEN ReturnOnLast(last, "Parse failed", outcome.text)
    ELSE IF parsed.state.k # "dict" THEN ReturnOnLast(last, "Unexpected error", <<>>)
    ELSE ProviderSuccess(parsed.analysis_text, outcome.text)

\* lines 917-972, one pass of the loop of analyze_multi_timeframe: parsed is
\* what parser.parse_multi_timeframe returned for a response
multi_attempt(outcome, parsed, last) ==
    IF outcome.kind = "RequestException" THEN ReturnOnLast(last, "API request failed", <<>>)
    ELSE IF outcome.kind = "Exception" THEN ReturnOnLast(last, "Unexpected error", <<>>)
    ELSE IF ~parsed.success THEN ReturnOnLast(last, "Parse failed", outcome.text)
    ELSE ProviderSuccess(parsed.analysis_text, outcome.text)

\* the local response_text of analyze_multi_timeframe: "" until a _call_api
\* returns, then the latest text returned
RECURSIVE LastResponse(_)
LastResponse(outcomes) ==
    IF outcomes = <<>> THEN <<>>
    ELSE IF outcomes[Len(outcomes)].kind = "response" THEN outcomes[Len(outcomes)].text
    ELSE LastResponse(SubSeq(outcomes, 1, Len(outcomes) - 1))

\* lines 1037-1213: the states of the timeframes whose heading the text
\* holds; no token of the texts here is a timeframe heading
_extract_state_from_text(text) == [tf \in {} |-> EmptyDict]

\* lines 974-1009, after the loop: parser.parse on response_text, then the
\* extraction from the text, then the failure
multi_fallback(text, parsed) ==
    IF parsed.success
    THEN [ProviderSuccess(parsed.analysis_text, text) EXCEPT
            !.fallback = TRUE,
            !.single_parse = [called |-> TRUE, text |-> text]]
    ELSE IF parsed.analysis_text # <<>> /\ DOMAIN _extract_state_from_text(text) # {}
    THEN [ProviderSuccess(parsed.analysis_text, text) EXCEPT
            !.fallback = TRUE,
            !.single_parse = [called |-> TRUE, text |-> text]]
    ELSE [ProviderFailure("Max retries exceeded", <<>>) EXCEPT
            !.single_parse = [called |-> TRUE, text |-> text]]

ProviderUnchanged ==
    UNCHANGED <<response_text, payload, pc, parse_result, multi_result, other_text,
                other_result, pipeVars, trade_plan, risk_metrics, trades, saved, got_state,
                save_result, method, max_retries>>

\* analyze, lines 204-256: the next pass of the loop
AnalyzeAttempt ==
    /\ method = "analyze"
    /\ ~analysis.called
    /\ Len(attempts) < max_retries
    /\ \E outcome \in ApiOutcomes :
        /\ attempts' = Append(attempts, outcome)
        /\ \E parsed \in {parse(outcome.text)} :
            analysis' = analyze_attempt(outcome, parsed, Len(attempts) = max_retries - 1)
    /\ ProviderUnchanged

\* analyze, line 258: the range is used up
AnalyzeExhausted ==
    /\ method = "analyze"
    /\ ~analysis.called
    /\ Len(attempts) >= max_retries
    /\ analysis' = ProviderFailure("Max retries exceeded", <<>>)
    /\ attempts' = attempts
    /\ ProviderUnchanged

\* analyze_multi_timeframe, lines 916-972: the next pass of the loop
MultiAttempt ==
    /\ method = "analyze_multi_timeframe"
    /\ ~analysis.called
    /\ Len(attempts) < max_retries
    /\ \E outcome \in ApiOutcomes :
        /\ attempts' = Append(attempts, outcome)
        /\ \E parsed \in {parse_multi_timeframe(outcome.text, payload)} :
            analysis' = multi_attempt(outcome, parsed, Len(attempts) = max_retries - 1)
    /\ ProviderUnchanged

\* analyze_multi_timeframe, lines 974-1009: the range is used up
MultiExhausted ==
    /\ method = "analyze_multi_timeframe"
    /\ ~analysis.called
    /\ Len(attempts) >= max_retries
    /\ \E parsed \in {parse(LastResponse(attempts))} :
        analysis' = multi_fallback(LastResponse(attempts), parsed)
    /\ attempts' = attempts
    /\ ProviderUnchanged

ProviderInit ==
    /\ pc = "ready"
    /\ response_text = <<>>
    /\ payload \in BasicPayloads
    /\ parse_result = NotCalled
    /\ multi_result = NotCalled
    /\ other_text = <<>>
    /\ other_result = NotCalled
    /\ valid_timeframes = {}
    /\ llm_result = NotCalled
    /\ consensus = NotCalled
    /\ llm = "SiliconFlowProvider"
    /\ db = EmptyDb
    /\ trade_plan = NoPlan
    /\ risk_metrics = NotCalled
    /\ trades = <<>>
    /\ saved = [tf \in Timeframes |-> Missing]
    /\ got_state = NotCalled
    /\ save_result = NotCalled
    /\ method \in {"analyze", "analyze_multi_timeframe"}
    /\ max_retries \in 0..MaxRetries
    /\ attempts = <<>>
    /\ analysis = NotCalled

ProviderNext == AnalyzeAttempt \/ AnalyzeExhausted \/ MultiAttempt \/ MultiExhausted

\* a call that has not returned takes its next step: the loop body and the
\* code after the loop do not block (requests.post has a timeout, time.sleep
\* returns)
SpecProvider == ProviderInit /\ [][ProviderNext]_vars /\ WF_vars(ProviderNext)

\* the passes of analyze whose response parser.parse accepted
ParsedAttempts == {i \in 1..Len(attempts) :
                      attempts[i].kind = "response" /\ parse(attempts[i].text).success}

\* C27: analyze terminates without raising; it calls the API at most
\* max_retries times, stops at the first response that parses successfully,
\* and returns success = false once every attempt has failed, also for
\* max_retries = 0 and for every mix of request errors, other errors and
\* parse failures.
C27_AnalyzeTerminates ==
    /\ [](method = "analyze" =>
            /\ Len(attempts) <= max_retries
            /\ analysis.called => ~analysis.raised
            /\ \A i \in ParsedAttempts : i = Len(attempts) /\ analysis.called
            /\ (analysis.called /\ ParsedAttempts = {}) => ~analysis.success)
    /\ <>(method = "analyze" => analysis.called)

\* the passes of analyze_multi_timeframe that received a response
ResponseAttempts == {i \in 1..Len(attempts) : attempts[i].kind = "response"}

\* C28: when analyze_multi_timeframe returns a failure after its attempts
\* received responses and none of them parsed, the single-timeframe parse
\* was attempted on the last response text before the failure was returned.
C28_FallbackBeforeFailure ==
    (/\ method = "analyze_multi_timeframe"
     /\ analysis.called
     /\ ~analysis.success
     /\ ResponseAttempts # {}) =>
        /\ analysis.single_parse.called
        /\ analysis.single_parse.text = LastResponse(attempts)

====
